---- MODULE Spec2Model ----
(***************************************************************************)
(* Rule validator and rule-based fixer of the labeling quality-control     *)
(* tool (src/src/core/rule_validator.py, src/src/core/rule_fixer.py,       *)
(* src/backend/src/models/quality_issue.py).                               *)
(*                                                                         *)
(* Texts are sequences of characters.  A Hangul syllable is written as one *)
(* romanised token, so that the length of a text is its number of          *)
(* characters:                                                             *)
(*   won mun = "원문", beon yeok mun = "번역문", bon mun = "본문",         *)
(*   cheom bu ja ryo = "첨부자료", cham go ja ryo = "참고자료",            *)
(*   byeol cheom = "별첨", hyeon an = "현안", ro geu = "로그",             *)
(*   he deo = "헤더", jeong bo = "정보", sa eop gae yo = "사업 개요",      *)
(*   je = "제", jang/jeol/jo = "장/절/조", chong chik = "총칙",            *)
(*   nyeon/wol/il = "년/월/일", jak seong = "작성",                        *)
(*   ga na da ra ma ba sa = "가나다라마바사".                              *)
(* Labels and tags are atomic strings; the forbidden ones are romanised:   *)
(*   yeongyeol = "연결", gukgamyeong = "국가명",                           *)
(*   jeongchaekmyeong = "정책명", beopryulmyeong = "법률명",               *)
(*   yoyak = "요약".                                                       *)
(***************************************************************************)
EXTENDS Integers, Sequences, FiniteSets, TLC

VARIABLES
    visualinfo_data,   \* RuleBasedFixer.visualinfo_data: the in-memory document
    visualinfo_file,   \* RuleBasedFixer.visualinfo_file: "found" or "None"
    disk,              \* content of the visualinfo JSON file on disk
    before,            \* the in-memory document as it was before the last operation
    fixes,             \* FixResult list returned by the last single pass
    all_fixes,         \* mapping returned by the last run_all_rule_fixes
    issues,            \* issue list returned by the last validate_all_rules
    lastOp,            \* name of the last operation
    saved,             \* return value of the last save_fixes ("True"/"False"/"None")
    raised,            \* TRUE once an exception has crossed the Fixer's boundary
    diskBefore,        \* content of the file when the last save_fixes was called
    file_system,       \* the files: path -> content of the file at that path
    controller_fixer,  \* QualityController.fixer: None or the RuleBasedFixer's extract_dir
    dir_results,       \* mapping returned by the last validate_directory
    called_path        \* path argument of the last QualityController call

vars == <<visualinfo_data, visualinfo_file, disk, before, fixes, all_fixes,
          issues, lastOp, saved, raised, diskBefore,
          file_system, controller_fixer, dir_results, called_path>>

-----------------------------------------------------------------------------
(* Python values that may appear in one slot with different types.         *)

PyStr(s) == <<"str", s>>
PyInt(n) == <<"int", n>>
PyList(l) == <<"list", l>>
PyFmt(parts) == <<"fstr", parts>>     \* an f-string, by its parts
PyNone == <<"none">>

(* Python truthiness of a tagged value. *)
Truthy(v) ==
    CASE v[1] = "none" -> FALSE
      [] v[1] = "int" -> v[2] # 0
      [] v[1] = "str" -> v[2] # ""
      [] v[1] = "fstr" -> v[2] # <<>>
      [] v[1] = "list" -> v[2] # <<>>

(* Dictionaries are functions from keys to values. *)
EmptyDict == [k \in {} |-> PyNone]
Get(d, k, default) == IF k \in DOMAIN d THEN d[k] ELSE default
Put(d, k, v) == [j \in DOMAIN d \cup {k} |-> IF j = k THEN v ELSE d[j]]

-----------------------------------------------------------------------------
(* Characters and texts.                                                   *)

AsciiUpper == <<"A","B","C","D","E","F","G","H","I","J","K","L","M",
                "N","O","P","Q","R","S","T","U","V","W","X","Y","Z">>
AsciiLower == <<"a","b","c","d","e","f","g","h","i","j","k","l","m",
                "n","o","p","q","r","s","t","u","v","w","x","y","z">>
Digits == {"0","1","2","3","4","5","6","7","8","9"}
Whitespace == {" ", "\t", "\n"}
HangulSyllables ==
    {"won","mun","beon","yeok","bon","cheom","bu","ja","ryo","cham","go",
     "byeol","hyeon","an","ro","geu","he","deo","jeong","bo","je","jang",
     "jeol","jo","nyeon","wol","il","jak","seong","ga","na","da","ra","ma",
     "ba","sa","eop","gae","yo","chong","chik","beop","pyeon","hang"}

Range(s) == {s[i] : i \in DOMAIN s}
IsDigit(c) == c \in Digits
IsSpace(c) == c \in Whitespace
IsHangul(c) == c \in HangulSyllables
IsWord(c) == c \in Range(AsciiUpper) \cup Range(AsciiLower) \cup Digits
                    \cup {"_"} \cup HangulSyllables

(* str.lower() on one character *)
Lower(c) ==
    IF c \in Range(AsciiUpper)
    THEN AsciiLower[CHOOSE i \in DOMAIN AsciiUpper : AsciiUpper[i] = c]
    ELSE c
LowerText(text) == [i \in DOMAIN text |-> Lower(text[i])]

(* str.strip() *)
RECURSIVE LStrip(_)
LStrip(text) ==
    IF text # <<>> /\ IsSpace(Head(text)) THEN LStrip(Tail(text)) ELSE text
RECURSIVE RStrip(_)
RStrip(text) ==
    IF text # <<>> /\ IsSpace(text[Len(text)])
    THEN RStrip(SubSeq(text, 1, Len(text) - 1)) ELSE text
Strip(text) == RStrip(LStrip(text))

(* text[:n] *)
Prefix(text, n) == SubSeq(text, 1, IF Len(text) < n THEN Len(text) ELSE n)

(* the literal lit occurs in text at position i *)
MatchAt(text, i, lit) ==
    /\ i >= 1
    /\ i + Len(lit) - 1 <= Len(text)
    /\ \A k \in DOMAIN lit : text[i + k - 1] = lit[k]
Contains(text, lit) == \E i \in 1..Len(text) : MatchAt(text, i, lit)
StartsWith(text, lit) == MatchAt(text, 1, lit)

(* first position >= i whose character is not in class C: a greedy run *)
RECURSIVE SkipClass(_, _, _)
SkipClass(text, i, C) ==
    IF i <= Len(text) /\ text[i] \in C THEN SkipClass(text, i + 1, C) ELSE i

-----------------------------------------------------------------------------
(* Text literals of the rules.                                             *)

TextWonmun == <<"won","mun">>
TextBeonyeokmun == <<"beon","yeok","mun">>
TextBeonyeok == <<"beon","yeok">>
TextBonmun == <<"bon","mun">>
TextCheombujaryo == <<"cheom","bu","ja","ryo">>
TextChamgojaryo == <<"cham","go","ja","ryo">>
TextByeolcheom == <<"byeol","cheom">>
TextHyeonan == <<"hyeon","an">>
TextRogeu == <<"ro","geu">>
TextHedeo == <<"he","deo">>
TextJeongbo == <<"jeong","bo">>
TextThe == <<"t","h","e">>

ForbiddenTags == <<"yeongyeol", "gukgamyeong", "jeongchaekmyeong",
                   "beopryulmyeong", "yoyak">>

(* FixResult(success, description, before_value, after_value) *)
FixResult(success, description, before_value, after_value) ==
    [success |-> success, description |-> description,
     before_value |-> before_value, after_value |-> after_value,
     error_message |-> PyNone, metadata |-> EmptyDict]

(* element.get('content', {}).get('text', '') *)
ElementText(element) == Get(Get(element, "content", EmptyDict), "text", <<>>)
(* element.get('category', {}).get('label', '') *)
ElementLabel(element) == Get(Get(element, "category", EmptyDict), "label", "")
(* element.get('category', {}).get('type') *)
ElementType(element) == Get(Get(element, "category", EmptyDict), "type", "None")
(* element.get('id', 'unknown') *)
ElementId(element) == Get(element, "id", "unknown")
(* element.get('pageIndex', 0) *)
ElementPage(element) == Get(element, "pageIndex", 0)
(* element.get('bbox', {}).get('top', 0) *)
ElementTop(element) == Get(Get(element, "bbox", EmptyDict), "top", 0)
(* element.get('table', {}).get('cells', []) *)
ElementCells(element) == Get(Get(element, "table", EmptyDict), "cells", <<>>)
(* element.get('tags', []) *)
ElementTags(element) == Get(element, "tags", <<>>)

-----------------------------------------------------------------------------
(* RuleBasedFixer: the five correction passes.  Each pass maps the         *)
(* in-memory document to the document it leaves and the list it returns.   *)

(* re.search(pattern, text, re.IGNORECASE) for the six stoplist patterns *)
MatchesTheHyeonan(text) ==       \* r"The\s*현안"
    \E i \in 1..Len(text) :
        /\ MatchAt(LowerText(text), i, TextThe)
        /\ MatchAt(text, SkipClass(text, i + Len(TextThe), Whitespace), TextHyeonan)
MatchesHedeoJeongbo(text) ==     \* r"헤더.*정보"
    \E i \in 1..Len(text) :
        /\ MatchAt(text, i, TextHedeo)
        /\ \E j \in (i + Len(TextHedeo))..Len(text) :
              /\ MatchAt(text, j, TextJeongbo)
              /\ \A k \in (i + Len(TextHedeo))..(j - 1) : text[k] # "\n"
IsUnnecessary(text) ==
    \/ MatchesTheHyeonan(text)
    \/ Contains(text, TextCheombujaryo)      \* r"첨부자료"
    \/ Contains(text, TextChamgojaryo)       \* r"참고자료"
    \/ Contains(text, TextByeolcheom)        \* r"별첨"
    \/ StartsWith(text, TextRogeu)           \* r"^로그"
    \/ MatchesHedeoJeongbo(text)

(* ElementsToRemove with the scan ended at the first match *)
RECURSIVE ElementsToRemoveFirstOnly(_, _)
ElementsToRemoveFirstOnly(elements, i) ==
    IF i > Len(elements) THEN <<>>
    ELSE LET text == ElementText(elements[i])
         IN  IF text # <<>> /\ IsUnnecessary(text)
             THEN <<i>>
             ELSE ElementsToRemoveFirstOnly(elements, i + 1)

(* ElementsToRemove when an element without text counts as unnecessary *)
RECURSIVE ElementsToRemoveWithEmpty(_, _)
ElementsToRemoveWithEmpty(elements, i) ==
    IF i > Len(elements) THEN <<>>
    ELSE LET text == ElementText(elements[i])
         IN  IF Strip(text) = <<>> \/ IsUnnecessary(text)
             THEN <<i>> \o ElementsToRemoveWithEmpty(elements, i + 1)
             ELSE ElementsToRemoveWithEmpty(elements, i + 1)

(* indexes (ascending) of the elements to remove *)
RECURSIVE ElementsToRemove(_, _)
ElementsToRemove(elements, i) ==
    IF i > Len(elements) THEN <<>>
    ELSE LET text == ElementText(elements[i])
         IN  IF text # <<>> /\ IsUnnecessary(text)
             THEN <<i>> \o ElementsToRemove(elements, i + 1)
             ELSE ElementsToRemove(elements, i + 1)

Reversed(s) == [i \in 1..Len(s) |-> s[Len(s) + 1 - i]]
(* list.pop(i): the list without its i-th element *)
Pop(s, i) == SubSeq(s, 1, i - 1) \o SubSeq(s, i + 1, Len(s))

(* the removal loop with one FixResult appended after it, for the batch *)
RECURSIVE PopAllOneResult(_, _)
PopAllOneResult(elements, order) ==
    IF order = <<>> THEN [elements |-> elements, fixes |-> <<>>]
    ELSE [elements |-> PopAllOneResult(Pop(elements, Head(order)), Tail(order)).elements,
          fixes |-> <<FixResult(TRUE, <<"remove_unnecessary", Len(order)>>,
                                PyStr("present"), PyStr("removed"))>>]

(* for i in reversed(elements_to_remove): elements.pop(i); fixes.append(..) *)
RECURSIVE PopAll(_, _)
PopAll(elements, order) ==
    IF order = <<>> THEN [elements |-> elements, fixes |-> <<>>]
    ELSE LET i == Head(order)
             removed_element == elements[i]
             rest == PopAll(Pop(elements, i), Tail(order))
         IN  [elements |-> rest.elements,
              fixes |-> <<FixResult(TRUE,
                             <<"remove_unnecessary",
                               Prefix(ElementText(removed_element), 30)>>,
                             PyStr("present"), PyStr("removed"))>>
                        \o rest.fixes]

fix_unnecessary_elements(data) ==
    IF data = EmptyDict THEN [data |-> data, fixes |-> <<>>]
    ELSE LET elements == Get(data, "elements", <<>>)
             r == PopAll(elements, Reversed(ElementsToRemove(elements, 1)))
         IN  [data |-> IF "elements" \in DOMAIN data \/ r.fixes # <<>>
                       THEN Put(data, "elements", r.elements)
                       ELSE data,
              fixes |-> r.fixes]

(* _determine_correct_label with the text set of the validator's R009 *)
determine_correct_label_r009_texts(text, current_label, element) ==
    IF text = <<>> THEN [label |-> current_label, element |-> element]
    ELSE IF Strip(text) \in {TextWonmun, TextBeonyeokmun, TextBonmun}
            /\ current_label = "ListText"
         THEN [label |-> "ParaText", element |-> element]
         ELSE [label |-> current_label, element |-> element]

(* _determine_correct_label: the label it returns and the element as it    *)
(* leaves it (the type is written only when the category has a type key)   *)
determine_correct_label(text, current_label, element) ==
    IF text = <<>> THEN [label |-> current_label, element |-> element]
    ELSE IF Strip(text) \in {TextWonmun, TextBeonyeokmun}
            /\ current_label = "ListText"
         THEN [label |-> "ParaText",
               element |-> IF "category" \in DOMAIN element
                              /\ "type" \in DOMAIN element.category
                           THEN [element EXCEPT !.category.type = "PARAGRAPH"]
                           ELSE element]
         ELSE [label |-> current_label, element |-> element]

(* one iteration of the loop of fix_label_types *)
FixLabelOfElement(element) ==
    LET text == Strip(ElementText(element))
        current_label == ElementLabel(element)
        d == determine_correct_label(text, current_label, element)
    IN  IF d.label # "" /\ d.label # current_label
        THEN [element |-> [d.element EXCEPT !.category.label = d.label],
              fixes |-> <<FixResult(TRUE, <<"fix_label", Prefix(text, 30)>>,
                                    PyStr(current_label), PyStr(d.label))>>]
        ELSE [element |-> d.element, fixes |-> <<>>]

RECURSIVE ConcatFixes(_, _)
ConcatFixes(results, i) ==
    IF i > Len(results) THEN <<>>
    ELSE results[i].fixes \o ConcatFixes(results, i + 1)

fix_label_types(data) ==
    IF data = EmptyDict THEN [data |-> data, fixes |-> <<>>]
    ELSE LET elements == Get(data, "elements", <<>>)
             results == [i \in 1..Len(elements) |-> FixLabelOfElement(elements[i])]
         IN  [data |-> IF "elements" \in DOMAIN data
                       THEN Put(data, "elements",
                                [i \in 1..Len(elements) |-> results[i].element])
                       ELSE data,
              fixes |-> ConcatFixes(results, 1)]

(* an insertion that puts an element before the ones as high as it *)
RECURSIVE InsertBeforeEqualTop(_, _)
InsertBeforeEqualTop(sorted, e) ==
    IF sorted = <<>> THEN <<e>>
    ELSE IF ElementTop(Head(sorted)) < ElementTop(e)
         THEN <<Head(sorted)>> \o InsertBeforeEqualTop(Tail(sorted), e)
         ELSE <<e>> \o sorted

(* list.sort(key=top) / sorted(.., key=top): a stable sort by bbox.top *)
RECURSIVE InsertByTop(_, _)
InsertByTop(sorted, e) ==
    IF sorted = <<>> THEN <<e>>
    ELSE IF ElementTop(Head(sorted)) <= ElementTop(e)
         THEN <<Head(sorted)>> \o InsertByTop(Tail(sorted), e)
         ELSE <<e>> \o sorted
RECURSIVE SortByTop(_)
SortByTop(s) ==
    IF s = <<>> THEN <<>>
    ELSE InsertByTop(SortByTop(SubSeq(s, 1, Len(s) - 1)), s[Len(s)])

(* page_groups: the elements of one page, in stored order *)
PageGroup(elements, page_idx) ==
    SelectSeq(elements, LAMBDA e : ElementPage(e) = page_idx)
PageIndexes(elements) == {ElementPage(elements[i]) : i \in DOMAIN elements}

(* the page groups concatenated in ascending page order, none of them sorted *)
RECURSIVE GroupedPages(_, _)
GroupedPages(elements, pages) ==
    IF pages = {} THEN <<>>
    ELSE LET page_idx == CHOOSE p \in pages : \A q \in pages : p <= q
         IN  PageGroup(elements, page_idx)
                 \o GroupedPages(elements, pages \ {page_idx})

(* for page_idx in sorted(page_groups.keys()): sort the page, extend *)
RECURSIVE SortedPages(_, _)
SortedPages(elements, pages) ==
    IF pages = {} THEN <<>>
    ELSE LET page_idx == CHOOSE p \in pages : \A q \in pages : p <= q
         IN  SortByTop(PageGroup(elements, page_idx))
                 \o SortedPages(elements, pages \ {page_idx})

IdsOf(elements) == [i \in 1..Len(elements) |-> ElementId(elements[i])]

fix_element_order(data) ==
    IF data = EmptyDict THEN [data |-> data, fixes |-> <<>>]
    ELSE LET elements == Get(data, "elements", <<>>)
             sorted_elements == SortedPages(elements, PageIndexes(elements))
         IN  IF IdsOf(elements) # IdsOf(sorted_elements)
             THEN [data |-> Put(data, "elements", sorted_elements),
                   fixes |-> <<FixResult(TRUE, <<"order_sorted">>,
                                  PyFmt(<<"original", Len(elements)>>),
                                  PyFmt(<<"sorted", Len(sorted_elements)>>))>>]
             ELSE [data |-> data, fixes |-> <<>>]

(* _is_translation_table *)
is_translation_table(table) ==
    /\ Contains(ElementText(table), TextWonmun)
    /\ Contains(ElementText(table), TextBeonyeok)

(* a transform that does reorder: the cells of the table reversed *)
reorder_translation_table(table) ==
    LET cells == ElementCells(table)
    IN  Put(table, "table",
            Put(Get(table, "table", EmptyDict), "cells",
                [i \in 1..Len(cells) |-> cells[Len(cells) + 1 - i]]))

(* _fix_translation_table_order: copy.deepcopy(table), nothing reordered *)
fix_translation_table_order(table) == table

(* one iteration of the loop of fix_table_structure; table.update(fixed) *)
FixTable(table) ==
    IF ElementType(table) = "TABLE" /\ ElementCells(table) # <<>>
       /\ is_translation_table(table)
       /\ fix_translation_table_order(table) # table
    THEN [element |-> [k \in DOMAIN table
                                 \cup DOMAIN fix_translation_table_order(table) |->
                          IF k \in DOMAIN fix_translation_table_order(table)
                          THEN fix_translation_table_order(table)[k]
                          ELSE table[k]],
          fixes |-> <<FixResult(TRUE, <<"translation_table_order">>,
                                PyStr("original order"),
                                PyStr("canonical order"))>>]
    ELSE [element |-> table, fixes |-> <<>>]

fix_table_structure(data) ==
    IF data = EmptyDict THEN [data |-> data, fixes |-> <<>>]
    ELSE LET elements == Get(data, "elements", <<>>)
             results == [i \in 1..Len(elements) |-> FixTable(elements[i])]
         IN  [data |-> IF "elements" \in DOMAIN data
                       THEN Put(data, "elements",
                                [i \in 1..Len(elements) |-> results[i].element])
                       ELSE data,
              fixes |-> ConcatFixes(results, 1)]

(* the comprehension over a forbidden list that lacks its last entry *)
CleanedTagsShortList(tags) ==
    SelectSeq(tags, LAMBDA tag :
        tag \notin Range(SubSeq(ForbiddenTags, 1, Len(ForbiddenTags) - 1)))

(* [tag for tag in tags if tag not in forbidden_tags] *)
CleanedTags(tags) == SelectSeq(tags, LAMBDA tag : tag \notin Range(ForbiddenTags))

(* one iteration of the loop of remove_forbidden_tags *)
RemoveTagsOfElement(element) ==
    LET original_tags == ElementTags(element)
        cleaned_tags == CleanedTags(original_tags)
        removed_tags == SelectSeq(original_tags,
                                  LAMBDA tag : tag \notin Range(cleaned_tags))
    IN  IF Len(cleaned_tags) # Len(original_tags)
        THEN [element |-> Put(element, "tags", cleaned_tags),
              fixes |-> <<FixResult(TRUE, <<"forbidden_tags_removed", removed_tags>>,
                                    PyList(original_tags), PyList(cleaned_tags))>>]
        ELSE [element |-> element, fixes |-> <<>>]

remove_forbidden_tags(data) ==
    IF data = EmptyDict THEN [data |-> data, fixes |-> <<>>]
    ELSE LET elements == Get(data, "elements", <<>>)
             results == [i \in 1..Len(elements) |-> RemoveTagsOfElement(elements[i])]
         IN  [data |-> IF "elements" \in DOMAIN data
                       THEN Put(data, "elements",
                                [i \in 1..Len(elements) |-> results[i].element])
                       ELSE data,
              fixes |-> ConcatFixes(results, 1)]

(* run_all_rule_fixes with the order pass called between labels and tables *)
run_all_rule_fixes_with_order(data) ==
    LET p1 == fix_unnecessary_elements(data)
        p2 == fix_label_types(p1.data)
        p3 == fix_element_order(p2.data)
        p4 == fix_table_structure(p3.data)
        p5 == remove_forbidden_tags(p4.data)
    IN  [data |-> p5.data,
         all_fixes |-> [unnecessary |-> p1.fixes, labels |-> p2.fixes,
                        order |-> p3.fixes, tables |-> p4.fixes, tags |-> p5.fixes]]

(* run_all_rule_fixes with the prune called after the other passes *)
run_all_rule_fixes_prune_last(data) ==
    LET p2 == fix_label_types(data)
        p4 == fix_table_structure(p2.data)
        p5 == remove_forbidden_tags(p4.data)
        p1 == fix_unnecessary_elements(p5.data)
    IN  [data |-> p1.data,
         all_fixes |-> [unnecessary |-> p1.fixes, labels |-> p2.fixes,
                        order |-> <<>>, tables |-> p4.fixes, tags |-> p5.fixes]]

(* run_all_rule_fixes: the passes in order on the one in-memory document;  *)
(* the order pass is not called, its entry is an empty list                *)
run_all_rule_fixes(data) ==
    LET p1 == fix_unnecessary_elements(data)
        p2 == fix_label_types(p1.data)
        p4 == fix_table_structure(p2.data)
        p5 == remove_forbidden_tags(p4.data)
    IN  [data |-> p5.data,
         all_fixes |-> [unnecessary |-> p1.fixes, labels |-> p2.fixes,
                        order |-> <<>>, tables |-> p4.fixes, tags |-> p5.fixes]]

-----------------------------------------------------------------------------
(* Quality issues (src/backend/src/models/quality_issue.py).               *)

(* QualityIssue(...): the dataclass constructor; metadata None becomes {} *)
QualityIssue(rule_id, severity, message, file_path, element_id, page_index, category, suggested_fix, auto_fixable, metadata) ==
    [rule_id |-> rule_id, severity |-> severity, message |-> message,
     file_path |-> file_path, element_id |-> element_id,
     page_index |-> page_index, category |-> category,
     suggested_fix |-> suggested_fix, auto_fixable |-> auto_fixable,
     metadata |-> metadata]

(* create_label_issue(rule_id, message, element_id, file_path,             *)
(*                    old_label=None, new_label=None, page_index=None)     *)
create_label_issue(rule_id, message, element_id, file_path, old_label, new_label, page_index) ==
    LET m1 == IF Truthy(old_label) THEN Put(EmptyDict, "old_label", old_label)
              ELSE EmptyDict
        metadata == IF Truthy(new_label) THEN Put(m1, "new_label", new_label)
                    ELSE m1
    IN  QualityIssue(rule_id, "warning", message, file_path, element_id,
                     page_index, PyStr("label_type"),
                     IF Truthy(new_label)
                     THEN PyFmt(<<"change label to", new_label>>) ELSE PyNone,
                     TRUE, metadata)

(* create_structure_issue(rule_id, issue_description, file_path) *)
create_structure_issue(rule_id, issue_description, file_path) ==
    QualityIssue(rule_id, "error",
                 PyFmt(<<"structure problem", issue_description>>),
                 file_path, PyNone, PyNone, PyStr("structure"), PyNone,
                 FALSE, EmptyDict)

-----------------------------------------------------------------------------
(* RuleValidator (src/src/core/rule_validator.py).                         *)

RECURSIVE ConcatIssues(_, _)
ConcatIssues(lists, i) ==
    IF i > Len(lists) THEN <<>> ELSE lists[i] \o ConcatIssues(lists, i + 1)

(* the distinct members of a sequence, in order of first occurrence: the   *)
(* iteration order of a dict keyed by them                                 *)
RECURSIVE Distinct(_)
Distinct(s) ==
    IF s = <<>> THEN <<>>
    ELSE LET d == Distinct(SubSeq(s, 1, Len(s) - 1))
         IN  IF s[Len(s)] \in Range(d) THEN d ELSE Append(d, s[Len(s)])

(* text[i], or a value that is no character when i is out of range *)
At(text, i) == IF i \in 1..Len(text) THEN text[i] ELSE "<end>"

validate_r001_empty_text(elements, file_path) ==
    ConcatIssues([i \in 1..Len(elements) |->
        LET element == elements[i]
            text == Strip(ElementText(element))
        IN  IF text = <<>>
            THEN <<QualityIssue("R001", "error", PyStr("empty text element"),
                                PyStr(file_path), PyStr(ElementId(element)),
                                PyInt(ElementPage(element)),
                                PyStr("label_content"),
                                PyStr("remove the element or add text"),
                                TRUE, EmptyDict)>>
            ELSE <<>>], 1)

(* re.sub(r'[0-9\W]+', '', text.lower()) *)
TextPattern(text) ==
    SelectSeq(LowerText(text), LAMBDA c : IsWord(c) /\ ~IsDigit(c))

MinPatternLen == 3

(* the items appended to text_patterns, in element order *)
R002Items(elements) ==
    ConcatIssues([i \in 1..Len(elements) |->
        LET element == elements[i]
            text == Strip(ElementText(element))
            label == ElementLabel(element)
        IN  IF text = <<>> \/ label = "" THEN <<>>
            ELSE IF Len(TextPattern(text)) < MinPatternLen THEN <<>>
            ELSE <<[element_id |-> ElementId(element), text |-> text,
                    label |-> label, element |-> element,
                    pattern |-> TextPattern(text)]>>], 1)

(* max(label_counts, key=label_counts.get): the first key, in insertion    *)
(* order, whose count is the largest                                       *)
RecommendedLabel(items) ==
    LET labels == Distinct([i \in 1..Len(items) |-> items[i].label])
        Count(l) == Cardinality({i \in 1..Len(items) : items[i].label = l})
        best == CHOOSE k \in 1..Len(labels) :
                    /\ \A j \in 1..Len(labels) : Count(labels[j]) <= Count(labels[k])
                    /\ \A j \in 1..(k - 1) : Count(labels[j]) < Count(labels[k])
    IN  labels[best]

(* the issues of one pattern group *)
R002GroupIssues(items, file_path) ==
    IF Len(items) < 2 THEN <<>>
    ELSE IF Cardinality({items[i].label : i \in 1..Len(items)}) <= 1 THEN <<>>
    ELSE LET recommended_label == RecommendedLabel(items)
         IN  ConcatIssues([i \in 1..Len(items) |->
                 IF items[i].label # recommended_label
                 THEN <<create_label_issue("R002",
                            PyStr(items[i].element_id),
                            PyStr(items[i].label),
                            PyStr(recommended_label),
                            PyStr(file_path),
                            PyInt(ElementPage(items[i].element)),
                            PyNone)>>
                 ELSE <<>>], 1)

validate_r002_label_consistency(elements, file_path) ==
    LET items == R002Items(elements)
        patterns == Distinct([i \in 1..Len(items) |-> items[i].pattern])
    IN  ConcatIssues([p \in 1..Len(patterns) |->
            R002GroupIssues(SelectSeq(items, LAMBDA it : it.pattern = patterns[p]),
                            file_path)], 1)

(* the four title patterns of R003 *)
IsTitlePattern(text) ==
    \/ LET j == SkipClass(text, 1, {"I", "V", "X"})      \* r'^[IVX]+\.\s+'
       IN  j > 1 /\ At(text, j) = "." /\ IsSpace(At(text, j + 1))
    \/ LET j == SkipClass(text, 1, Digits)               \* r'^\d+\.\s+[가-힣]+'
           k == SkipClass(text, j + 1, Whitespace)
       IN  j > 1 /\ At(text, j) = "." /\ k > j + 1 /\ IsHangul(At(text, k))
    \/ /\ At(text, 1) \in {"ga","na","da","ra","ma","ba","sa"}
       /\ At(text, 2) = "." /\ IsSpace(At(text, 3))      \* r'^[가나다라마바사]\.\s+'
    \/ LET j == SkipClass(text, 2, Digits)               \* r'^제\d+[장절조]\s+'
       IN  /\ At(text, 1) = "je" /\ j > 2
           /\ At(text, j) \in {"jang", "jeol", "jo"} /\ IsSpace(At(text, j + 1))

validate_r003_title_patterns(elements, file_path) ==
    ConcatIssues([i \in 1..Len(elements) |->
        LET element == elements[i]
            text == Strip(ElementText(element))
            current_label == ElementLabel(element)
        IN  IF text # <<>> /\ IsTitlePattern(text)
               /\ current_label \notin {"ParaTitle", "DocTitle"}
            THEN <<create_label_issue("R003",
                       PyStr(ElementId(element)),
                       PyStr(current_label),
                       PyStr("ParaTitle"),
                       PyStr(file_path),
                       PyInt(ElementPage(element)),
                       PyNone)>>
            ELSE <<>>], 1)

(* Regular-expression pieces over a position; position 0 means no match.   *)
MLit(text, i, lit) ==                    \* a literal
    IF i # 0 /\ MatchAt(text, i, lit) THEN i + Len(lit) ELSE 0
MDigits(text, i, lo, hi) ==              \* \d{lo,hi}, greedy
    IF i = 0 THEN 0
    ELSE LET run == SkipClass(text, i, Digits) - i
             n == IF run > hi THEN hi ELSE run
         IN  IF n < lo THEN 0 ELSE i + n
MSpaces(text, i) ==                      \* \s*
    IF i = 0 THEN 0 ELSE SkipClass(text, i, Whitespace)
MEnd(text, i) ==                         \* $
    IF i # 0 /\ i = Len(text) + 1 THEN i ELSE 0

(* r'^\d{4}년\s*\d{1,2}월\s*\d{1,2}일' *)
DateYearMonthDay(text) ==
    MLit(text, MDigits(text, MSpaces(text,
         MLit(text, MDigits(text, MSpaces(text,
         MLit(text, MDigits(text, 1, 4, 4), <<"nyeon">>)), 1, 2), <<"wol">>)),
         1, 2), <<"il">>) # 0
(* r'^\d{4}\.\s*\d{1,2}\.\s*\d{1,2}' up to the second number *)
DateDottedPrefix(text) ==
    MDigits(text, MSpaces(text,
    MLit(text, MDigits(text, MSpaces(text,
    MLit(text, MDigits(text, 1, 4, 4), <<".">>)), 1, 2), <<".">>)), 1, 2)
(* r'^\d{4}\.\s*\d{1,2}\.\s*\d{1,2}$' *)
DateDotted(text) == MEnd(text, DateDottedPrefix(text)) # 0
(* r'^\d{4}-\d{1,2}-\d{1,2}$' *)
DateDashed(text) ==
    MEnd(text, MDigits(text, MLit(text, MDigits(text,
         MLit(text, MDigits(text, 1, 4, 4), <<"-">>), 1, 2), <<"-">>), 1, 2)) # 0
(* r'^\d{4}\.\s*\d{1,2}\.\s*\d{1,2}\s*작성': the last number may give back *)
(* its second digit only to a literal, which is no digit                   *)
DateDottedWritten(text) ==
    MLit(text, MSpaces(text, DateDottedPrefix(text)), <<"jak", "seong">>) # 0

validate_r004_date_format(elements, file_path) ==
    ConcatIssues([i \in 1..Len(elements) |->
        LET element == elements[i]
            text == Strip(ElementText(element))
            current_label == ElementLabel(element)
            is_date_pattern == \/ DateYearMonthDay(text) \/ DateDotted(text)
                               \/ DateDashed(text) \/ DateDottedWritten(text)
        IN  IF text # <<>> /\ is_date_pattern /\ current_label # "Date"
            THEN <<create_label_issue("R004",
                       PyStr(ElementId(element)),
                       PyStr(current_label),
                       PyStr("Date"),
                       PyStr(file_path),
                       PyInt(ElementPage(element)),
                       PyNone)>>
            ELSE <<>>], 1)

validate_r005_table_structure(elements, file_path) ==
    ConcatIssues([i \in 1..Len(elements) |->
        LET table == elements[i]
        IN  IF ElementType(table) = "TABLE" /\ ElementCells(table) = <<>>
            THEN <<QualityIssue("R005", "error", PyStr("table has no cells"),
                                PyStr(file_path), PyStr(ElementId(table)),
                                PyNone, PyStr("structure"), PyNone,
                                FALSE, EmptyDict)>>
            ELSE <<>>], 1)

(* sorted_by_position.index(element): the first equal member, from 0 *)
IndexOf(s, e) == (CHOOSE k \in 1..Len(s) :
                     s[k] = e /\ \A j \in 1..(k - 1) : s[j] # e) - 1

(* the issues of one page group *)
R006PageIssues(page_elements, page_idx, file_path) ==
    LET sorted_by_position == SortByTop(page_elements)
    IN  ConcatIssues([i \in 1..Len(page_elements) |->
            LET expected_position == IndexOf(sorted_by_position, page_elements[i])
            IN  IF i - 1 # expected_position
                THEN <<QualityIssue("R006", "warning",
                           PyFmt(<<"order differs", i - 1, expected_position>>),
                           PyStr(file_path),
                           PyStr(ElementId(page_elements[i])),
                           PyInt(page_idx), PyStr("structure"), PyNone,
                           TRUE, EmptyDict)>>
                ELSE <<>>], 1)

(* R006 with the pages visited in ascending page index *)
validate_r006_sorted_pages(elements, file_path) ==
    LET pages == PageIndexes(elements)
        RECURSIVE Visit(_)
        Visit(left) ==
            IF left = {} THEN <<>>
            ELSE LET page_idx == CHOOSE q \in left : \A r \in left : q <= r
                 IN  R006PageIssues(PageGroup(elements, page_idx), page_idx, file_path)
                         \o Visit(left \ {page_idx})
    IN  Visit(pages)

validate_r006_order_consistency(elements, file_path) ==
    LET pages == Distinct([i \in 1..Len(elements) |-> ElementPage(elements[i])])
    IN  ConcatIssues([p \in 1..Len(pages) |->
            R006PageIssues(PageGroup(elements, pages[p]), pages[p], file_path)], 1)

MinDuplicateLen == 5

(* R007 with seen_texts[text] overwritten at every occurrence: the issue   *)
(* names the previous occurrence                                           *)
validate_r007_previous_occurrence(elements, file_path) ==
    ConcatIssues([i \in 1..Len(elements) |->
        LET text == Strip(ElementText(elements[i]))
            earlier == {j \in 1..(i - 1) : Strip(ElementText(elements[j])) = text}
        IN  IF text = <<>> \/ Len(text) < MinDuplicateLen THEN <<>>
            ELSE IF earlier # {}
            THEN LET last == CHOOSE j \in earlier : \A k \in earlier : j >= k
                 IN  <<QualityIssue("R007", "warning",
                           PyFmt(<<"duplicate text", Prefix(text, 50)>>),
                           PyStr(file_path), PyStr(ElementId(elements[i])),
                           PyNone, PyStr("consistency"),
                           PyStr("remove or merge the duplicate"), TRUE,
                           [duplicate_of |-> PyStr(ElementId(elements[last])),
                            text |-> PyFmt(text)])>>
            ELSE <<>>], 1)

validate_r007_duplicate_elements(elements, file_path) ==
    ConcatIssues([i \in 1..Len(elements) |->
        LET text == Strip(ElementText(elements[i]))
            earlier == {j \in 1..(i - 1) : Strip(ElementText(elements[j])) = text}
        IN  IF text = <<>> \/ Len(text) < MinDuplicateLen THEN <<>>
            ELSE IF earlier # {}
            THEN LET first == CHOOSE j \in earlier : \A k \in earlier : j <= k
                 IN  <<QualityIssue("R007", "warning",
                           PyFmt(<<"duplicate text", Prefix(text, 50)>>),
                           PyStr(file_path), PyStr(ElementId(elements[i])),
                           PyNone, PyStr("consistency"),
                           PyStr("remove or merge the duplicate"), TRUE,
                           [duplicate_of |-> PyStr(ElementId(elements[first])),
                            text |-> PyFmt(text)])>>
            ELSE <<>>], 1)

validate_r008_forbidden_labels(elements, file_path) ==
    ConcatIssues([i \in 1..Len(elements) |->
        LET current_label == ElementLabel(elements[i])
        IN  IF current_label \in Range(ForbiddenTags)
            THEN <<QualityIssue("R008", "error",
                       PyFmt(<<"forbidden label", current_label>>),
                       PyStr(file_path), PyStr(ElementId(elements[i])),
                       PyNone, PyStr("label_type"),
                       PyStr("change to a proper label"), TRUE, EmptyDict)>>
            ELSE <<>>], 1)

validate_r009_specific_text_labels(elements, file_path) ==
    ConcatIssues([i \in 1..Len(elements) |->
        LET element == elements[i]
            text == Strip(ElementText(element))
            current_label == ElementLabel(element)
        IN  IF text \in {TextWonmun, TextBeonyeokmun, TextBonmun}
               /\ current_label # "ParaText"
            THEN <<create_label_issue("R009",
                       PyStr(ElementId(element)),
                       PyStr(current_label),
                       PyStr("ParaText"),
                       PyStr(file_path),
                       PyInt(ElementPage(element)),
                       PyNone)>>
            ELSE <<>>], 1)

(* R010 with a pattern list that lacks r'^\d{4}-\d{1,2}-\d{1,2}$' *)
validate_r010_without_dashed(elements, file_path) ==
    ConcatIssues([i \in 1..Len(elements) |->
        LET element == elements[i]
            text == Strip(ElementText(element))
            current_label == ElementLabel(element)
            is_date_pattern == \/ DateYearMonthDay(text) \/ DateDottedWritten(text)
                               \/ DateDotted(text)
        IN  IF text # <<>> /\ is_date_pattern /\ current_label # "Date"
            THEN <<create_label_issue("R010",
                       PyStr(ElementId(element)),
                       PyStr(current_label),
                       PyStr("Date"),
                       PyStr(file_path),
                       PyInt(ElementPage(element)),
                       PyNone)>>
            ELSE <<>>], 1)

validate_r010_date_pattern_labels(elements, file_path) ==
    ConcatIssues([i \in 1..Len(elements) |->
        LET element == elements[i]
            text == Strip(ElementText(element))
            current_label == ElementLabel(element)
            is_date_pattern == \/ DateYearMonthDay(text) \/ DateDottedWritten(text)
                               \/ DateDotted(text) \/ DateDashed(text)
        IN  IF text # <<>> /\ is_date_pattern /\ current_label # "Date"
            THEN <<create_label_issue("R010",
                       PyStr(ElementId(element)),
                       PyStr(current_label),
                       PyStr("Date"),
                       PyStr(file_path),
                       PyInt(ElementPage(element)),
                       PyNone)>>
            ELSE <<>>], 1)

(* validate_all_rules over rules that read element['content'] by          *)
(* subscript: at the first element without content R001 raises KeyError    *)
(* before any issue was collected, and the caller receives no issue        *)
validate_all_rules_subscripted(data, file_path) ==
    LET elements == Get(data, "elements", <<>>)
    IN  IF elements = <<>>
        THEN <<create_structure_issue("STRUCTURE_001", "no elements", PyStr(file_path))>>
        ELSE IF \E i \in DOMAIN elements : "content" \notin DOMAIN elements[i]
        THEN <<>>
        ELSE validate_r001_empty_text(elements, file_path)
             \o validate_r002_label_consistency(elements, file_path)
             \o validate_r003_title_patterns(elements, file_path)
             \o validate_r004_date_format(elements, file_path)
             \o validate_r005_table_structure(elements, file_path)
             \o validate_r006_order_consistency(elements, file_path)
             \o validate_r007_duplicate_elements(elements, file_path)
             \o validate_r008_forbidden_labels(elements, file_path)
             \o validate_r009_specific_text_labels(elements, file_path)
             \o validate_r010_date_pattern_labels(elements, file_path)

(* validate_all_rules without the early return on an empty element list *)
validate_all_rules_no_early_return(data, file_path) ==
    LET elements == Get(data, "elements", <<>>)
    IN  validate_r001_empty_text(elements, file_path)
        \o validate_r002_label_consistency(elements, file_path)
        \o validate_r003_title_patterns(elements, file_path)
        \o validate_r004_date_format(elements, file_path)
        \o validate_r005_table_structure(elements, file_path)
        \o validate_r006_order_consistency(elements, file_path)
        \o validate_r007_duplicate_elements(elements, file_path)
        \o validate_r008_forbidden_labels(elements, file_path)
        \o validate_r009_specific_text_labels(elements, file_path)
        \o validate_r010_date_pattern_labels(elements, file_path)

(* validate_all_rules(data, file_path) *)
validate_all_rules(data, file_path) ==
    LET elements == Get(data, "elements", <<>>)
    IN  IF elements = <<>>
        THEN <<create_structure_issue("STRUCTURE_001", "no elements",
                                      PyStr(file_path))>>
        ELSE validate_r001_empty_text(elements, file_path)
             \o validate_r002_label_consistency(elements, file_path)
             \o validate_r003_title_patterns(elements, file_path)
             \o validate_r004_date_format(elements, file_path)
             \o validate_r005_table_structure(elements, file_path)
             \o validate_r006_order_consistency(elements, file_path)
             \o validate_r007_duplicate_elements(elements, file_path)
             \o validate_r008_forbidden_labels(elements, file_path)
             \o validate_r009_specific_text_labels(elements, file_path)
             \o validate_r010_date_pattern_labels(elements, file_path)

(* a validator that reads with dict.setdefault: a missing category is     *)
(* written into the element                                                *)
DataAfterValidateSetdefault(data) ==
    IF "elements" \notin DOMAIN data THEN data
    ELSE Put(data, "elements",
             [i \in 1..Len(data.elements) |->
                 IF "category" \in DOMAIN data.elements[i] THEN data.elements[i]
                 ELSE Put(data.elements[i], "category", EmptyDict)])

(* the document as validate_all_rules leaves it: the rules read with       *)
(* dict.get and sort copies (sorted), no statement writes to the document  *)
DataAfterValidate(data) == data

-----------------------------------------------------------------------------
(* The visualinfo JSON file: its content is a sequence of tokens, written  *)
(* in order by json.dump and read back by json.load.                       *)

Punct(c) == <<"punct", c>>
Key(k) == <<"key", k>>
Scalar(v) == <<"scalar", v>>
Object(e) == <<"object", e>>

(* json.dump(data, f, ensure_ascii=False, indent=2) *)
Dump(data) ==
    <<Punct("{")>>
    \o (IF "version" \in DOMAIN data
        THEN <<Key("version"), Scalar(data.version)>> ELSE <<>>)
    \o (IF "elements" \in DOMAIN data
        THEN <<Key("elements"), Punct("[")>>
             \o [i \in 1..Len(data.elements) |-> Object(data.elements[i])]
             \o <<Punct("]")>>
        ELSE <<>>)
    \o <<Punct("}")>>

(* json.load(f): ok is FALSE where it raises JSONDecodeError *)
Load(content) ==
    LET n == Len(content)
        hasVersion == n >= 4 /\ content[2] = Key("version")
                             /\ content[3][1] = "scalar"
        i == IF hasVersion THEN 4 ELSE 2
        hasElements == n >= i + 3 /\ content[i] = Key("elements")
                                  /\ content[i + 1] = Punct("[")
                                  /\ content[n - 1] = Punct("]")
                                  /\ \A k \in (i + 2)..(n - 2) :
                                         content[k][1] = "object"
        wellFormed == /\ n >= 2
                      /\ content[1] = Punct("{")
                      /\ content[n] = Punct("}")
                      /\ (hasElements \/ n = i)
        d1 == IF hasVersion THEN Put(EmptyDict, "version", content[3][2])
              ELSE EmptyDict
    IN  IF ~wellFormed THEN [ok |-> FALSE, data |-> EmptyDict]
        ELSE [ok |-> TRUE,
              data |-> IF hasElements
                       THEN Put(d1, "elements",
                                [k \in 1..(n - i - 3) |-> content[i + 1 + k][2]])
                       ELSE d1]

(* the directory's visualinfo file: present with a content, or absent *)
File(content) == [exists |-> TRUE, content |-> content]
NoFile == [exists |-> FALSE, content |-> <<>>]

(* RuleBasedFixer.__init__: the fields it leaves, and whether json.load    *)
(* raised out of it                                                        *)
fixer_init(file) ==
    IF ~file.exists
    THEN [raised |-> FALSE, visualinfo_file |-> "None", visualinfo_data |-> EmptyDict]
    ELSE IF Load(file.content).ok
    THEN [raised |-> FALSE, visualinfo_file |-> "found",
          visualinfo_data |-> Load(file.content).data]
    ELSE [raised |-> TRUE, visualinfo_file |-> "found", visualinfo_data |-> EmptyDict]

(* save_fixes.  outcome is what the file system does: 0 = the write goes   *)
(* through; k > 0 = open(.., 'w') succeeded, truncating the file, and the  *)
(* write raised after k - 1 tokens; -1 = open itself raised.               *)
save_fixes(file, data, outcome, hasFile) ==
    IF ~hasFile \/ data = EmptyDict
    THEN [saved |-> "False", file |-> file]
    ELSE IF outcome = 0
    THEN [saved |-> "True", file |-> File(Dump(data))]
    ELSE IF outcome > 0
    THEN [saved |-> "False", file |-> File(SubSeq(Dump(data), 1, outcome - 1))]
    ELSE [saved |-> "False", file |-> file]

-----------------------------------------------------------------------------
(* Documents.                                                              *)

FilePath == "doc_visualinfo.json"
ElementIds == <<"e1", "e2", "e3", "e4", "e5", "e6", "e7", "e8">>

MaxElements == 3

(* element records of the fixer's cases, without their id *)
FixerShapes ==
    { \* "원문", ListText/LIST
      [content |-> [text |-> TextWonmun],
       category |-> [label |-> "ListText", type |-> "LIST"],
       pageIndex |-> 0, bbox |-> [top |-> 2]],
      \* " 번역문", ListText, no type key
      [content |-> [text |-> <<" ">> \o TextBeonyeokmun],
       category |-> [label |-> "ListText"],
       pageIndex |-> 0, bbox |-> [top |-> 1]],
      \* "본문", ListText/LIST
      [content |-> [text |-> TextBonmun],
       category |-> [label |-> "ListText", type |-> "LIST"],
       pageIndex |-> 1, bbox |-> [top |-> 1]],
      \* a table without cells whose text is "첨부자료 1", with tags
      [content |-> [text |-> TextCheombujaryo \o <<" ", "1">>],
       category |-> [label |-> "Table", type |-> "TABLE"],
       table |-> [cells |-> <<>>], pageIndex |-> 0, bbox |-> [top |-> 3],
       tags |-> <<"yeongyeol", "keep", "yoyak">>],
      \* a translation table "원문 번역문" with cells and a forbidden tag
      [content |-> [text |-> TextWonmun \o <<" ">> \o TextBeonyeokmun],
       category |-> [label |-> "Table", type |-> "TABLE"],
       table |-> [cells |-> <<"c1", "c2">>],
       pageIndex |-> 0, bbox |-> [top |-> 6],
       tags |-> <<"gukgamyeong">>] }

(* the documents of at most n elements drawn from shapes; the i-th element *)
(* gets the i-th id                                                        *)
Documents(shapes, n) ==
    UNION { { [elements |-> [i \in 1..k |-> Put(f[i], "id", ElementIds[i])]] :
              f \in [1..k -> shapes] } : k \in 0..n }

NoFixes == [unnecessary |-> <<>>, labels |-> <<>>, order |-> <<>>,
            tables |-> <<>>, tags |-> <<>>]

(* no QualityController: the Fixer and the validator are called directly *)
NoController ==
    /\ file_system = EmptyDict
    /\ controller_fixer = PyNone
    /\ dir_results = EmptyDict
    /\ called_path = ""

-----------------------------------------------------------------------------
(* Spec: a Fixer constructed on a directory, its passes called in any      *)
(* order, and the validator called on its in-memory document.              *)

Init ==
    /\ \E file \in {File(Dump(d)) : d \in Documents(FixerShapes, MaxElements)}
                     \cup {NoFile, File(Dump([version |-> "1"]))} :
          /\ disk = file
          /\ visualinfo_data = fixer_init(file).visualinfo_data
          /\ visualinfo_file = fixer_init(file).visualinfo_file
    /\ before = visualinfo_data
    /\ fixes = <<>>
    /\ all_fixes = NoFixes
    /\ issues = <<>>
    /\ lastOp = "__init__"
    /\ saved = "None"
    /\ raised = FALSE
    /\ diskBefore = disk
    /\ NoController

(* the constructor has returned a Fixer *)
Constructed == lastOp # "none" /\ ~raised

(* a single pass called on the Fixer *)
Pass(name, r) ==
    /\ Constructed
    /\ before' = visualinfo_data
    /\ visualinfo_data' = r.data
    /\ fixes' = r.fixes
    /\ all_fixes' = NoFixes
    /\ issues' = <<>>
    /\ lastOp' = name
    /\ UNCHANGED <<visualinfo_file, disk, saved, raised, diskBefore,
                   file_system, controller_fixer, dir_results, called_path>>

FixUnnecessaryElements ==
    Pass("fix_unnecessary_elements", fix_unnecessary_elements(visualinfo_data))
FixLabelTypes ==
    Pass("fix_label_types", fix_label_types(visualinfo_data))
FixElementOrder ==
    Pass("fix_element_order", fix_element_order(visualinfo_data))
FixTableStructure ==
    Pass("fix_table_structure", fix_table_structure(visualinfo_data))
RemoveForbiddenTags ==
    Pass("remove_forbidden_tags", remove_forbidden_tags(visualinfo_data))

RunAllRuleFixes ==
    LET r == run_all_rule_fixes(visualinfo_data)
    IN  /\ Constructed
        /\ before' = visualinfo_data
        /\ visualinfo_data' = r.data
        /\ all_fixes' = r.all_fixes
        /\ fixes' = <<>>
        /\ issues' = <<>>
        /\ lastOp' = "run_all_rule_fixes"
        /\ UNCHANGED <<visualinfo_file, disk, saved, raised, diskBefore,
                   file_system, controller_fixer, dir_results, called_path>>

(* validate_all_rules called on the in-memory document *)
ValidateAllRules ==
    /\ Constructed
    /\ before' = visualinfo_data
    /\ issues' = validate_all_rules(visualinfo_data, FilePath)
    /\ visualinfo_data' = DataAfterValidate(visualinfo_data)
    /\ fixes' = <<>>
    /\ all_fixes' = NoFixes
    /\ lastOp' = "validate_all_rules"
    /\ UNCHANGED <<visualinfo_file, disk, saved, raised, diskBefore,
                   file_system, controller_fixer, dir_results, called_path>>

Next ==
    \/ FixUnnecessaryElements
    \/ FixLabelTypes
    \/ FixElementOrder
    \/ FixTableStructure
    \/ RemoveForbiddenTags
    \/ RunAllRuleFixes
    \/ ValidateAllRules

Spec == Init /\ [][Next]_vars

-----------------------------------------------------------------------------
(* SpecIO: the constructor run on a directory, run_all_rule_fixes and      *)
(* save_fixes, with the file system free to fail a write.                  *)

(* files json.load cannot parse: an empty file, a cut-off document *)
UnparsableFiles ==
    {File(<<>>), File(<<Punct("{"), Key("elements"), Punct("[")>>)}

MaxSavedElements == 2

InitIO ==
    /\ disk \in {File(Dump(d)) : d \in Documents(FixerShapes, MaxSavedElements)}
                 \cup {NoFile, File(Dump([version |-> "1"])), File(Dump(EmptyDict))}
                 \cup UnparsableFiles
    /\ visualinfo_data = EmptyDict
    /\ visualinfo_file = "None"
    /\ before = visualinfo_data
    /\ fixes = <<>>
    /\ all_fixes = NoFixes
    /\ issues = <<>>
    /\ lastOp = "none"
    /\ saved = "None"
    /\ raised = FALSE
    /\ diskBefore = disk
    /\ NoController

(* RuleBasedFixer(extract_dir) *)
Construct ==
    /\ lastOp = "none"
    /\ raised' = fixer_init(disk).raised
    /\ visualinfo_file' = fixer_init(disk).visualinfo_file
    /\ visualinfo_data' = fixer_init(disk).visualinfo_data
    /\ before' = visualinfo_data
    /\ lastOp' = "__init__"
    /\ UNCHANGED <<disk, fixes, all_fixes, issues, saved, diskBefore,
                   file_system, controller_fixer, dir_results, called_path>>

(* fixer.save_fixes() *)
SaveFixes ==
    /\ Constructed
    /\ \E outcome \in -1..Len(Dump(visualinfo_data)) :
          LET r == save_fixes(disk, visualinfo_data, outcome,
                              visualinfo_file # "None")
          IN  /\ disk' = r.file
              /\ saved' = r.saved
    /\ diskBefore' = disk
    /\ before' = visualinfo_data
    /\ lastOp' = "save_fixes"
    /\ fixes' = <<>>
    /\ all_fixes' = NoFixes
    /\ issues' = <<>>
    /\ UNCHANGED <<visualinfo_data, visualinfo_file, raised,
                   file_system, controller_fixer, dir_results, called_path>>

NextIO ==
    \/ Construct
    \/ RunAllRuleFixes
    \/ SaveFixes

SpecIO == InitIO /\ [][NextIO]_vars

-----------------------------------------------------------------------------
(* SpecValidate: validate_all_rules called on a parsed document.           *)

MaxValidatedElements == 4

ValidatorShapes ==
    { \* "번역문", ParaText, page 0
      [content |-> [text |-> TextBeonyeokmun],
       category |-> [label |-> "ParaText", type |-> "PARAGRAPH"],
       pageIndex |-> 0, bbox |-> [top |-> 5]],
      \* "번역문", ListText, page 0, higher on the page
      [content |-> [text |-> TextBeonyeokmun],
       category |-> [label |-> "ListText", type |-> "LIST"],
       pageIndex |-> 0, bbox |-> [top |-> 1]],
      \* "사업 개요", ParaText, page 1
      [content |-> [text |-> <<"sa", "eop", " ", "gae", "yo">>],
       category |-> [label |-> "ParaText", type |-> "PARAGRAPH"],
       pageIndex |-> 1, bbox |-> [top |-> 5]],
      \* "사업 개요", ListText, page 1, higher on the page
      [content |-> [text |-> <<"sa", "eop", " ", "gae", "yo">>],
       category |-> [label |-> "ListText", type |-> "LIST"],
       pageIndex |-> 1, bbox |-> [top |-> 1]],
      \* an element with neither category, content, bbox nor table
      [pageIndex |-> 1],
      \* "2021-2-3" under a forbidden label, a table without a table key
      [content |-> [text |-> <<"2", "0", "2", "1", "-", "2", "-", "3">>],
       category |-> [label |-> "yoyak", type |-> "TABLE"],
       pageIndex |-> 0, bbox |-> [top |-> 3]],
      \* "제1장 총칙", ParaText
      [content |-> [text |-> <<"je", "1", "jang", " ", "chong", "chik">>],
       category |-> [label |-> "ParaText", type |-> "PARAGRAPH"],
       pageIndex |-> 0, bbox |-> [top |-> 2]] }

InitValidate ==
    /\ visualinfo_data \in Documents(ValidatorShapes, MaxValidatedElements)
                            \cup {[version |-> "1"]}
    /\ visualinfo_file = "None"
    /\ disk = NoFile
    /\ before = visualinfo_data
    /\ fixes = <<>>
    /\ all_fixes = NoFixes
    /\ issues = <<>>
    /\ lastOp = "__init__"
    /\ saved = "None"
    /\ raised = FALSE
    /\ diskBefore = disk
    /\ NoController

NextValidate == ValidateAllRules

SpecValidate == InitValidate /\ [][NextValidate]_vars

-----------------------------------------------------------------------------
(* Properties of the Fixer.                                                *)

ElementsOf(data) == Get(data, "elements", <<>>)
IsFixerOp(op) == op \in {"fix_unnecessary_elements", "fix_label_types",
                         "fix_element_order", "fix_table_structure",
                         "remove_forbidden_tags", "run_all_rule_fixes"}

(* C1: in every state reached by run_all_rule_fixes, running it once more  *)
(* leaves the document equal field for field and returns an empty list for *)
(* each of the five passes.                                                *)
C1_RunAllIdempotent ==
    lastOp = "run_all_rule_fixes" =>
        LET r == run_all_rule_fixes(visualinfo_data)
        IN  /\ r.data = visualinfo_data
            /\ DOMAIN r.all_fixes = {"unnecessary", "labels", "order", "tables", "tags"}
            /\ \A k \in DOMAIN r.all_fixes : Len(r.all_fixes[k]) = 0

(* a first run that pruned, relabelled and stripped tags, keeping elements *)
C1_Witness ==
    /\ lastOp = "run_all_rule_fixes"
    /\ Len(all_fixes.unnecessary) > 0
    /\ Len(all_fixes.labels) > 0
    /\ Len(all_fixes.tags) > 0
    /\ Len(ElementsOf(visualinfo_data)) > 1

SyncTable == {<<"ParaText", "PARAGRAPH">>, <<"ParaTitle", "HEADING">>,
              <<"ListText", "LIST">>}

(* the elements of the document whose label differs from the label the    *)
(* element of the same id had before the last operation                    *)
Relabeled ==
    {i \in DOMAIN ElementsOf(visualinfo_data) :
        \E j \in DOMAIN ElementsOf(before) :
            /\ ElementId(ElementsOf(before)[j]) = ElementId(ElementsOf(visualinfo_data)[i])
            /\ ElementLabel(ElementsOf(before)[j]) # ElementLabel(ElementsOf(visualinfo_data)[i])}

(* C2: after any Fixer pass every relabelled element carries a (label,     *)
(* type) pair of the synchronisation table.                                *)
C2_LabelTypeSync ==
    IsFixerOp(lastOp) =>
        \A i \in Relabeled :
            <<ElementLabel(ElementsOf(visualinfo_data)[i]),
              ElementType(ElementsOf(visualinfo_data)[i])>> \in SyncTable

(* C3: every issue that is not auto-fixable and reported on the document   *)
(* before run_all_rule_fixes is reported, same rule and same element, on   *)
(* the document after it.                                                  *)
C3_NonFixablePreserved ==
    lastOp = "run_all_rule_fixes" =>
        LET old == validate_all_rules(before, FilePath)
            new == validate_all_rules(visualinfo_data, FilePath)
        IN  \A i \in DOMAIN old :
                ~old[i].auto_fixable =>
                    \E j \in DOMAIN new :
                        /\ new[j].rule_id = old[i].rule_id
                        /\ new[j].element_id = old[i].element_id

(* C4: when validate reports an auto-fixable R009 issue before             *)
(* run_all_rule_fixes, it reports strictly fewer issues after it.          *)
C4_MonotonicImprovement ==
    lastOp = "run_all_rule_fixes" =>
        LET old == validate_all_rules(before, FilePath)
            new == validate_all_rules(visualinfo_data, FilePath)
        IN  (\E i \in DOMAIN old : old[i].rule_id = "R009" /\ old[i].auto_fixable)
                => Len(new) < Len(old)

(* C5: when save_fixes fails the in-memory document keeps every mutation   *)
(* and the file on disk holds what it held before the call.                *)
C5_FailedSaveLeavesFile ==
    (lastOp = "save_fixes" /\ saved = "False") =>
        /\ visualinfo_data = before
        /\ disk = diskBefore

(* C6: the constructor run on a file that cannot be parsed raises nothing  *)
(* and leaves a Fixer whose passes return no FixResult and whose           *)
(* save_fixes returns False without writing.                               *)
C6_UnparsableFileDoesNotRaise ==
    (lastOp = "__init__" /\ disk \in UnparsableFiles) =>
        /\ ~raised
        /\ run_all_rule_fixes(visualinfo_data).all_fixes = NoFixes
        /\ \A outcome \in {-1, 0, 1} :
               save_fixes(disk, visualinfo_data, outcome, visualinfo_file # "None")
                   = [saved |-> "False", file |-> disk]

-----------------------------------------------------------------------------
(* Properties of the validator.                                            *)

RuleOrder == <<"R001", "R002", "R003", "R004", "R005",
               "R006", "R007", "R008", "R009", "R010">>
RuleIndex(rule_id) == CHOOSE k \in DOMAIN RuleOrder : RuleOrder[k] = rule_id
LabelChangeRules == {"R002", "R003", "R004", "R009"}

(* The id of the element an issue is about.  The rules that build their    *)
(* issue with create_label_issue hand it the element id in the place of    *)
(* the message; the others set the element_id field.                       *)
OffendingId(issue) ==
    IF issue.rule_id \in LabelChangeRules \cup {"R010"}
    THEN issue.message[2] ELSE issue.element_id[2]
(* position in the document of the element with that id (ids are unique) *)
PositionOf(id) ==
    CHOOSE i \in DOMAIN ElementsOf(visualinfo_data) :
        ElementId(ElementsOf(visualinfo_data)[i]) = id
OffendingPosition(issue) == PositionOf(OffendingId(issue))

(* position of the first element of the group the rule files the element   *)
(* at position i under: its text pattern (R002), its page (R006)           *)
PatternOfElement(e) == TextPattern(Strip(ElementText(e)))
FirstOfGroup(rule_id, i) ==
    LET es == ElementsOf(visualinfo_data)
        same == IF rule_id = "R002"
                THEN {j \in DOMAIN es :
                         /\ Strip(ElementText(es[j])) # <<>>
                         /\ ElementLabel(es[j]) # ""
                         /\ PatternOfElement(es[j]) = PatternOfElement(es[i])}
                ELSE IF rule_id = "R006"
                THEN {j \in DOMAIN es : ElementPage(es[j]) = ElementPage(es[i])}
                ELSE {i}
    IN  CHOOSE j \in same : \A k \in same : j <= k

C9_EmptyDocument ==
    (lastOp = "validate_all_rules" /\ ElementsOf(visualinfo_data) = <<>>) =>
        /\ Len(issues) = 1
        /\ issues[1].rule_id = "STRUCTURE_001"
        /\ issues[1].severity = "error"
        /\ issues[1].category = PyStr("structure")
        /\ issues[1].auto_fixable = FALSE
        /\ issues[1].file_path = PyStr(FilePath)
        /\ issues[1].element_id = PyNone

(* a validated document without an elements key *)
C9_Witness ==
    /\ lastOp = "validate_all_rules"
    /\ "elements" \notin DOMAIN visualinfo_data
    /\ Len(issues) = 1

(* the label a label-change rule suggests for an element *)
SuggestedLabels(rule_id) ==
    CASE rule_id = "R003" -> {"ParaTitle"}
      [] rule_id = "R004" -> {"Date"}
      [] rule_id = "R009" -> {"ParaText"}
      [] rule_id = "R002" ->
            {ElementLabel(ElementsOf(visualinfo_data)[i]) :
                i \in DOMAIN ElementsOf(visualinfo_data)}

(* C10: every issue of a label-change rule carries the id and page of the  *)
(* offending element, the path given to validate, and the element's label  *)
(* and the suggested label as metadata old_label and new_label.            *)
C10_LabelIssueFields ==
    lastOp = "validate_all_rules" =>
        \A k \in DOMAIN issues :
            issues[k].rule_id \in LabelChangeRules =>
                \E i \in DOMAIN ElementsOf(visualinfo_data) :
                    LET e == ElementsOf(visualinfo_data)[i]
                    IN  /\ issues[k].element_id = PyStr(ElementId(e))
                        /\ issues[k].file_path = PyStr(FilePath)
                        /\ issues[k].page_index = PyInt(ElementPage(e))
                        /\ Get(issues[k].metadata, "old_label", PyNone)
                              = PyStr(ElementLabel(e))
                        /\ \E l \in SuggestedLabels(issues[k].rule_id) :
                              Get(issues[k].metadata, "new_label", PyNone) = PyStr(l)

-----------------------------------------------------------------------------
(* Properties of the single Fixer passes.                                  *)

LabelVocabulary == {"ParaText", "ParaTitle", "ListText", "RegionTitle",
                    "DocTitle", "Date", "PageNumber", "Table"}

(* an element fix_label_types is to relabel *)
IsListTextMarker(e) ==
    /\ Strip(ElementText(e)) \in {TextWonmun, TextBeonyeokmun}
    /\ ElementLabel(e) = "ListText"

(* C11: fix_label_types changes the label of exactly the ListText elements *)
(* whose trimmed text is "원문" or "번역문", to ParaText, with one FixResult  *)
(* ListText -> ParaText for each; and after any Fixer pass every label is  *)
(* the element's label of before or a label of the vocabulary.             *)
C11_LabelFixExact ==
    /\ lastOp = "fix_label_types" =>
          LET old == ElementsOf(before)
              new == ElementsOf(visualinfo_data)
              marked == {i \in DOMAIN old : IsListTextMarker(old[i])}
          IN  /\ Len(new) = Len(old)
              /\ \A i \in DOMAIN old :
                    /\ (ElementLabel(new[i]) # ElementLabel(old[i])) <=> i \in marked
                    /\ i \in marked => ElementLabel(new[i]) = "ParaText"
              /\ Len(fixes) = Cardinality(marked)
              /\ \A k \in DOMAIN fixes :
                    /\ fixes[k].success
                    /\ fixes[k].before_value = PyStr("ListText")
                    /\ fixes[k].after_value = PyStr("ParaText")
    /\ IsFixerOp(lastOp) =>
          \A i \in DOMAIN ElementsOf(visualinfo_data) :
              LET e == ElementsOf(visualinfo_data)[i]
              IN  \/ ElementLabel(e) \in LabelVocabulary
                  \/ \E j \in DOMAIN ElementsOf(before) :
                        /\ ElementId(ElementsOf(before)[j]) = ElementId(e)
                        /\ ElementLabel(ElementsOf(before)[j]) = ElementLabel(e)

(* fix_label_types relabelled an element and passed over a ListText        *)
(* element with another text                                               *)
C11_Witness ==
    /\ lastOp = "fix_label_types"
    /\ Len(fixes) > 0
    /\ \E i \in DOMAIN ElementsOf(visualinfo_data) :
          /\ ElementLabel(ElementsOf(visualinfo_data)[i]) = "ListText"
          /\ ElementLabel(ElementsOf(before)[i]) = "ListText"

(* the element's text is non-empty and matches a pattern of the stoplist *)
IsBoilerplate(e) == ElementText(e) # <<>> /\ IsUnnecessary(ElementText(e))

(* C12: fix_unnecessary_elements leaves exactly the elements whose text    *)
(* does not match the stoplist, unchanged and in their order, and returns  *)
(* one successful FixResult present -> removed per removed element.        *)
C12_PruneExact ==
    lastOp = "fix_unnecessary_elements" =>
        LET old == ElementsOf(before)
            new == ElementsOf(visualinfo_data)
        IN  /\ new = SelectSeq(old, LAMBDA e : ~IsBoilerplate(e))
            /\ Len(fixes) = Cardinality({i \in DOMAIN old : IsBoilerplate(old[i])})
            /\ \A k \in DOMAIN fixes :
                  /\ fixes[k].success
                  /\ fixes[k].before_value = PyStr("present")
                  /\ fixes[k].after_value = PyStr("removed")

(* a prune that removed two elements and kept one *)
C12_Witness ==
    /\ lastOp = "fix_unnecessary_elements"
    /\ Len(fixes) = 2
    /\ Len(ElementsOf(visualinfo_data)) = 1

(* position in s of the element with that id (ids are unique) *)
PositionIn(s, id) == CHOOSE i \in DOMAIN s : ElementId(s[i]) = id

(* the elements of new are elements of old, in the order they have in old *)
IsSubsequenceById(new, old) ==
    /\ \A i \in DOMAIN new : \E j \in DOMAIN old : ElementId(old[j]) = ElementId(new[i])
    /\ \A i, j \in DOMAIN new :
          i < j => PositionIn(old, ElementId(new[i])) < PositionIn(old, ElementId(new[j]))

(* C13: after run_all_rule_fixes the elements are a subsequence of the     *)
(* elements before it, the survivors in their original relative order,     *)
(* and the order entry of the returned mapping is empty.                   *)
C13_SurvivorsKeepOrder ==
    lastOp = "run_all_rule_fixes" =>
        /\ IsSubsequenceById(ElementsOf(visualinfo_data), ElementsOf(before))
        /\ all_fixes.order = <<>>

(* a run that pruned an element and left two survivors that are not in     *)
(* (pageIndex, bbox.top) order                                            *)
C13_Witness ==
    /\ lastOp = "run_all_rule_fixes"
    /\ Len(all_fixes.unnecessary) > 0
    /\ \E i, j \in DOMAIN ElementsOf(visualinfo_data) :
          /\ i < j
          /\ \/ ElementPage(ElementsOf(visualinfo_data)[i]) > ElementPage(ElementsOf(visualinfo_data)[j])
             \/ /\ ElementPage(ElementsOf(visualinfo_data)[i]) = ElementPage(ElementsOf(visualinfo_data)[j])
                /\ ElementTop(ElementsOf(visualinfo_data)[i]) > ElementTop(ElementsOf(visualinfo_data)[j])

IsForbiddenTag(tag) ==
    tag \in {"yeongyeol", "gukgamyeong", "jeongchaekmyeong", "beopryulmyeong", "yoyak"}
HasForbiddenTag(e) == \E k \in DOMAIN ElementTags(e) : IsForbiddenTag(ElementTags(e)[k])

(* C14: remove_forbidden_tags leaves in every element's tags exactly the   *)
(* tags that are not forbidden, in their order, and nothing else changed;  *)
(* it returns, in element order, one FixResult per element that had a      *)
(* forbidden tag: before_value the original list, after_value the cleaned  *)
(* list, the description listing the removed tags.                         *)
C14_ForbiddenTagsRemoved ==
    lastOp = "remove_forbidden_tags" =>
        LET old == ElementsOf(before)
            new == ElementsOf(visualinfo_data)
            changed == {i \in DOMAIN old : HasForbiddenTag(old[i])}
            rank(i) == Cardinality({j \in changed : j <= i})
            kept(e) == SelectSeq(ElementTags(e), LAMBDA tag : ~IsForbiddenTag(tag))
            removed(e) == SelectSeq(ElementTags(e), IsForbiddenTag)
        IN  /\ Len(new) = Len(old)
            /\ \A i \in DOMAIN old :
                  /\ ~HasForbiddenTag(new[i])
                  /\ ElementTags(new[i]) = kept(old[i])
                  /\ i \notin changed => new[i] = old[i]
                  /\ i \in changed => new[i] = Put(old[i], "tags", kept(old[i]))
            /\ Len(fixes) = Cardinality(changed)
            /\ \A i \in changed :
                  /\ fixes[rank(i)].success
                  /\ fixes[rank(i)].before_value = PyList(ElementTags(old[i]))
                  /\ fixes[rank(i)].after_value = PyList(kept(old[i]))
                  /\ fixes[rank(i)].description = <<"forbidden_tags_removed", removed(old[i])>>

(* a tag pass that stripped two tags around a kept one in one element,     *)
(* stripped the only tag of another and passed over an element without tags *)
C14_Witness ==
    /\ lastOp = "remove_forbidden_tags"
    /\ Len(fixes) = 2
    /\ \E k \in DOMAIN fixes : Len(fixes[k].after_value[2]) = 1 /\ Len(fixes[k].before_value[2]) = 3
    /\ \E i \in DOMAIN ElementsOf(visualinfo_data) :
          "tags" \notin DOMAIN ElementsOf(visualinfo_data)[i]

(* C15: run_all_rule_fixes returns a mapping with exactly the keys         *)
(* unnecessary, labels, order, tables, tags; the label and tag passes see  *)
(* the pruned document: they return one FixResult per surviving element    *)
(* that qualifies and none for an element the prune removed, and every     *)
(* element of the result is a survivor of the prune.                       *)
C15_PassesInOrder ==
    lastOp = "run_all_rule_fixes" =>
        LET old == ElementsOf(before)
            new == ElementsOf(visualinfo_data)
            survivors == {i \in DOMAIN old : ~IsBoilerplate(old[i])}
        IN  /\ DOMAIN all_fixes = {"unnecessary", "labels", "order", "tables", "tags"}
            /\ Len(all_fixes.unnecessary) = Len(old) - Cardinality(survivors)
            /\ Len(all_fixes.labels) =
                   Cardinality({i \in survivors : IsListTextMarker(old[i])})
            /\ Len(all_fixes.tags) =
                   Cardinality({i \in survivors : HasForbiddenTag(old[i])})
            /\ IdsOf(new) = IdsOf(SelectSeq(old, LAMBDA e : ~IsBoilerplate(e)))
            /\ \A k \in DOMAIN all_fixes.tags :
                  \E i \in survivors :
                      all_fixes.tags[k].before_value = PyList(ElementTags(old[i]))

(* a run that pruned an element carrying forbidden tags, and relabelled    *)
(* and stripped tags of surviving elements                                 *)
C15_Witness ==
    /\ lastOp = "run_all_rule_fixes"
    /\ \E i \in DOMAIN ElementsOf(before) :
          /\ IsBoilerplate(ElementsOf(before)[i])
          /\ HasForbiddenTag(ElementsOf(before)[i])
    /\ Len(all_fixes.labels) = 1
    /\ Len(all_fixes.tags) = 1

-----------------------------------------------------------------------------
(* Properties of the single validator rules.                               *)

IssuesOfRule(rule_id) == SelectSeq(issues, LAMBDA issue : issue.rule_id = rule_id)
TrimmedText(e) == Strip(ElementText(e))

(* positions of the earlier elements with the trimmed text of element i *)
EarlierOccurrences(i) ==
    {j \in 1..(i - 1) :
        TrimmedText(ElementsOf(visualinfo_data)[j]) = TrimmedText(ElementsOf(visualinfo_data)[i])}

(* C16: R007 reports no issue for an element whose trimmed text is shorter *)
(* than 5 characters or occurs for the first time, and exactly one issue   *)
(* for every later occurrence of a text of 5 characters or more, with the  *)
(* element's id as element_id and the first occurrence's id as             *)
(* metadata.duplicate_of: k - 1 issues for k elements of one text.         *)
C16_DuplicateLaterOccurrences ==
    (lastOp = "validate_all_rules" /\ ElementsOf(visualinfo_data) # <<>>) =>
        LET es == ElementsOf(visualinfo_data)
            r007 == IssuesOfRule("R007")
            isLater(i) == Len(TrimmedText(es[i])) >= 5 /\ EarlierOccurrences(i) # {}
            first(i) == CHOOSE j \in EarlierOccurrences(i) :
                            \A k \in EarlierOccurrences(i) : j <= k
        IN  /\ Len(r007) = Cardinality({i \in DOMAIN es : isLater(i)})
            /\ \A i \in DOMAIN es :
                  LET mine == {k \in DOMAIN r007 : r007[k].element_id = PyStr(ElementId(es[i]))}
                  IN  /\ ~isLater(i) => mine = {}
                      /\ isLater(i) =>
                            /\ Cardinality(mine) = 1
                            /\ \A k \in mine :
                                  r007[k].metadata.duplicate_of = PyStr(ElementId(es[first(i)]))

(* three elements of one text of five characters: two R007 issues, both    *)
(* naming the first element; and a later element whose text is too short   *)
C16_Witness ==
    /\ lastOp = "validate_all_rules"
    /\ Len(IssuesOfRule("R007")) = 2
    /\ IssuesOfRule("R007")[1].metadata.duplicate_of = PyStr("e1")
    /\ IssuesOfRule("R007")[2].metadata.duplicate_of = PyStr("e1")
    /\ IssuesOfRule("R007")[1].element_id # IssuesOfRule("R007")[2].element_id
    /\ \E i \in DOMAIN ElementsOf(visualinfo_data) :
          /\ TrimmedText(ElementsOf(visualinfo_data)[i]) # <<>>
          /\ Len(TrimmedText(ElementsOf(visualinfo_data)[i])) < 5

(* an element that lacks category, content or bbox *)
IsMalformed(e) == {"category", "content", "bbox"} \ DOMAIN e # {}
MalformedIds ==
    {ElementId(ElementsOf(visualinfo_data)[i]) :
        i \in {j \in DOMAIN ElementsOf(visualinfo_data) :
                  IsMalformed(ElementsOf(visualinfo_data)[j])}}

(* what validate_all_rules reports on the document without its malformed  *)
(* elements                                                                *)
IssuesWithoutMalformed ==
    LET others == SelectSeq(ElementsOf(visualinfo_data), LAMBDA e : ~IsMalformed(e))
    IN  IF others = <<>> THEN <<>>
        ELSE validate_all_rules([elements |-> others], FilePath)

(* the element at position i of the document is not where a stable sort    *)
(* of its page by bbox.top (0 where bbox is missing) puts it               *)
IsOutOfPlace(i) ==
    LET es == ElementsOf(visualinfo_data)
        page == {j \in DOMAIN es : ElementPage(es[j]) = ElementPage(es[i])}
        before_i == {j \in page : j < i}
        sorts_before_i == {j \in page :
                              \/ ElementTop(es[j]) < ElementTop(es[i])
                              \/ ElementTop(es[j]) = ElementTop(es[i]) /\ j < i}
    IN  Cardinality(before_i) # Cardinality(sorts_before_i)

-----------------------------------------------------------------------------
(* QualityController (src/backend/src/core/quality_controller.py) over a   *)
(* file system.  Paths are strings; the tree is                            *)
(*   ./A/a_visualinfo.json   ./A/notes.txt   ./A/visualinfo/a_visualinfo.json *)
(*   ./B/b_visualinfo.json                   ./B/visualinfo/b_visualinfo.json *)
(* and A/missing.json is a path at which there never is a file.            *)

PathA == "A/a_visualinfo.json"
PathB == "B/b_visualinfo.json"
PathNestedA == "A/visualinfo/a_visualinfo.json"
PathNestedB == "B/visualinfo/b_visualinfo.json"
PathNotes == "A/notes.txt"
PathMissing == "A/missing.json"
Directories == {".", "A", "B", "A/visualinfo", "B/visualinfo"}

(* file_path.parent *)
Parent(path) ==
    CASE path \in {PathA, PathNotes, PathMissing, "A/visualinfo"} -> "A"
      [] path \in {PathB, "B/visualinfo"} -> "B"
      [] path = PathNestedA -> "A/visualinfo"
      [] path = PathNestedB -> "B/visualinfo"
      [] OTHER -> "."

(* the path is below the directory, at any depth (rglob) *)
RECURSIVE IsUnder(_, _)
IsUnder(path, dir) ==
    path # "." /\ (Parent(path) = dir \/ IsUnder(Parent(path), dir))

(* the file name matches "*.json" / "*_visualinfo.json" *)
IsJsonName(path) == path \in {PathA, PathB, PathNestedA, PathNestedB, PathMissing}
IsVisualinfoName(path) == path \in {PathA, PathB, PathNestedA, PathNestedB}

(* the issue validate_file returns when open or json.load raised *)
SystemErrorIssue(path, error) ==
    QualityIssue("SYSTEM_ERROR", "error", PyFmt(<<"file load failed", error>>),
                 PyStr(path), PyNone, PyNone, PyNone, PyNone, FALSE, EmptyDict)

(* validate_file with open and json.load outside of any try: the error     *)
(* leaves the method and no issue list is returned                         *)
validate_file_unguarded(fs, path) ==
    IF path \notin DOMAIN fs \/ ~Load(fs[path]).ok THEN <<>>
    ELSE validate_all_rules(Load(fs[path]).data, path)

(* QualityController.validate_file *)
validate_file(fs, path) ==
    IF path \notin DOMAIN fs
    THEN <<SystemErrorIssue(path, "FileNotFoundError")>>
    ELSE IF ~Load(fs[path]).ok
    THEN <<SystemErrorIssue(path, "JSONDecodeError")>>
    ELSE validate_all_rules(Load(fs[path]).data, path)

(* QualityController.validate_directory: a file without issues gets no key *)
validate_directory(fs, dir_path) ==
    LET json_files == {p \in DOMAIN fs : IsUnder(p, dir_path) /\ IsJsonName(p)}
        reported == {p \in json_files : validate_file(fs, p) # <<>>}
    IN  [p \in reported |-> validate_file(fs, p)]

(* RuleBasedFixer(extract_dir) on the file system: the first file of       *)
(* (extract_dir / "visualinfo").glob("*_visualinfo.json"); the tree has at *)
(* most one                                                                *)
RuleBasedFixerOn(fs, extract_dir) ==
    LET visualinfo_files == {p \in DOMAIN fs :
                                /\ Parent(p) = extract_dir \o "/visualinfo"
                                /\ IsVisualinfoName(p)}
    IN  IF visualinfo_files = {} THEN fixer_init(NoFile)
        ELSE fixer_init(File(fs[CHOOSE p \in visualinfo_files : TRUE]))

(* QualityController.auto_fix_file.  self_fixer, fixer_file and fixer_data *)
(* are the controller's fixer field and that fixer's fields before the     *)
(* call.  The constructor runs outside the try; nothing is saved.          *)
auto_fix_file(fs, self_fixer, fixer_file, fixer_data, path) ==
    LET created == RuleBasedFixerOn(fs, Parent(path))
    IN  IF self_fixer = PyNone /\ created.raised
        THEN [raised |-> TRUE, fixer |-> PyNone,
              visualinfo_file |-> fixer_file, data_before |-> fixer_data,
              visualinfo_data |-> fixer_data, fixes |-> NoFixes,
              returned |-> <<>>]
        ELSE LET data == IF self_fixer = PyNone THEN created.visualinfo_data
                         ELSE fixer_data
                 r == run_all_rule_fixes(data)
             IN  [raised |-> FALSE,
                  fixer |-> IF self_fixer = PyNone
                            THEN <<"RuleBasedFixer", Parent(path)>>
                            ELSE self_fixer,
                  visualinfo_file |-> IF self_fixer = PyNone
                                      THEN created.visualinfo_file
                                      ELSE fixer_file,
                  data_before |-> data,
                  visualinfo_data |-> r.data,
                  fixes |-> r.all_fixes,
                  returned |-> validate_file(fs, path)]

-----------------------------------------------------------------------------
(* SpecController: one QualityController called on the files of the tree.  *)

MaxControllerElements == 1

ControllerShapes ==
    { \* "번역문", ListText: reported by R009
      [content |-> [text |-> TextBeonyeokmun],
       category |-> [label |-> "ListText", type |-> "LIST"],
       pageIndex |-> 0, bbox |-> [top |-> 1]],
      \* "번역문", ParaText: nothing to report
      [content |-> [text |-> TextBeonyeokmun],
       category |-> [label |-> "ParaText", type |-> "PARAGRAPH"],
       pageIndex |-> 0, bbox |-> [top |-> 5]] }

(* a file cut off in the middle of its element list *)
CutOffContent == <<Punct("{"), Key("elements"), Punct("[")>>
Absent == <<Punct("absent")>>

ControllerContents ==
    {Dump(d) : d \in Documents(ControllerShapes, MaxControllerElements)}
        \cup {CutOffContent}

(* the visualinfo documents below A/visualinfo and B/visualinfo *)
NestedDocumentA ==
    [elements |-> <<[id |-> "n1", content |-> [text |-> TextWonmun],
                     category |-> [label |-> "ListText", type |-> "LIST"],
                     pageIndex |-> 0, bbox |-> [top |-> 1]]>>]
NestedDocumentB ==
    [elements |-> <<[id |-> "n2",
                     content |-> [text |-> TextByeolcheom \o <<" ", "2">>],
                     category |-> [label |-> "ParaText", type |-> "PARAGRAPH"],
                     pageIndex |-> 0, bbox |-> [top |-> 1]],
                    [id |-> "n3", content |-> [text |-> TextBonmun],
                     category |-> [label |-> "ParaText", type |-> "PARAGRAPH"],
                     pageIndex |-> 0, bbox |-> [top |-> 2],
                     tags |-> <<"yoyak">>]>>]

FileSystems ==
    { [p \in {PathA, PathB, PathNotes}
             \cup (IF na = Absent THEN {} ELSE {PathNestedA})
             \cup (IF nb = Absent THEN {} ELSE {PathNestedB}) |->
          CASE p = PathA -> a
            [] p = PathB -> b
            [] p = PathNotes -> <<>>
            [] p = PathNestedA -> na
            [] p = PathNestedB -> nb] :
        a \in ControllerContents, b \in ControllerContents,
        na \in {Absent, Dump(NestedDocumentA), CutOffContent},
        nb \in {Absent, Dump(NestedDocumentB)} }

InitController ==
    /\ file_system \in FileSystems
    /\ controller_fixer = PyNone
    /\ dir_results = EmptyDict
    /\ called_path = ""
    /\ visualinfo_data = EmptyDict
    /\ visualinfo_file = "None"
    /\ disk = NoFile
    /\ before = visualinfo_data
    /\ fixes = <<>>
    /\ all_fixes = NoFixes
    /\ issues = <<>>
    /\ lastOp = "__init__"
    /\ saved = "None"
    /\ raised = FALSE
    /\ diskBefore = disk

(* controller.validate_file(path) *)
ValidateFile ==
    \E path \in {PathA, PathB, PathNestedA, PathNestedB, PathNotes, PathMissing} :
        /\ issues' = validate_file(file_system, path)
        /\ called_path' = path
        /\ lastOp' = "validate_file"
        /\ raised' = FALSE
        /\ dir_results' = EmptyDict
        /\ all_fixes' = NoFixes
        /\ before' = visualinfo_data
        /\ UNCHANGED <<visualinfo_data, visualinfo_file, disk, fixes, saved,
                       diskBefore, file_system, controller_fixer>>

(* controller.validate_directory(dir_path) *)
ValidateDirectory ==
    \E dir_path \in Directories :
        /\ dir_results' = validate_directory(file_system, dir_path)
        /\ called_path' = dir_path
        /\ lastOp' = "validate_directory"
        /\ raised' = FALSE
        /\ issues' = <<>>
        /\ all_fixes' = NoFixes
        /\ before' = visualinfo_data
        /\ UNCHANGED <<visualinfo_data, visualinfo_file, disk, fixes, saved,
                       diskBefore, file_system, controller_fixer>>

(* controller.auto_fix_file(path) *)
AutoFixFile ==
    \E path \in {PathA, PathB} :
        LET r == auto_fix_file(file_system, controller_fixer, visualinfo_file,
                               visualinfo_data, path)
        IN  /\ controller_fixer' = r.fixer
            /\ visualinfo_file' = r.visualinfo_file
            /\ before' = r.data_before
            /\ visualinfo_data' = r.visualinfo_data
            /\ all_fixes' = r.fixes
            /\ issues' = r.returned
            /\ raised' = r.raised
            /\ called_path' = path
            /\ lastOp' = "auto_fix_file"
            /\ dir_results' = EmptyDict
            /\ UNCHANGED <<disk, fixes, saved, diskBefore, file_system>>

NextController ==
    \/ ValidateFile
    \/ ValidateDirectory
    \/ AutoFixFile

SpecController == InitController /\ [][NextController]_vars

-----------------------------------------------------------------------------
(* Properties of the QualityController.                                    *)

(* there is no file at the path, or json.load cannot parse it *)
CannotLoad(path) ==
    path \notin DOMAIN file_system \/ ~Load(file_system[path]).ok

IsSystemError(list, path) ==
    /\ Len(list) = 1
    /\ list[1].rule_id = "SYSTEM_ERROR"
    /\ list[1].severity = "error"
    /\ list[1].file_path = PyStr(path)

(* C18: validate_file on a file that is missing or not valid JSON raises   *)
(* nothing and returns exactly one SYSTEM_ERROR issue of severity error;   *)
(* validate_directory reports such a file with that one issue and gives    *)
(* every other JSON file below the directory the issues validate reports   *)
(* on that file's own document (no key for a file without issues).         *)
C18_LoadFailureIsOneIssue ==
    /\ (lastOp = "validate_file" /\ CannotLoad(called_path)) =>
          /\ ~raised
          /\ IsSystemError(issues, called_path)
    /\ lastOp = "validate_directory" =>
          /\ ~raised
          /\ \A p \in DOMAIN dir_results : IsUnder(p, called_path) /\ IsJsonName(p)
          /\ \A p \in DOMAIN file_system :
                (IsUnder(p, called_path) /\ IsJsonName(p)) =>
                    IF CannotLoad(p)
                    THEN p \in DOMAIN dir_results /\ IsSystemError(dir_results[p], p)
                    ELSE Get(dir_results, p, <<>>)
                            = validate_all_rules(Load(file_system[p]).data, p)

(* validate_directory on the whole tree, with one file that cannot be      *)
(* parsed reported next to a file whose document has issues                *)
C18_Witness ==
    /\ lastOp = "validate_directory"
    /\ called_path = "."
    /\ CannotLoad(PathA)
    /\ PathA \in DOMAIN dir_results
    /\ PathB \in DOMAIN dir_results
    /\ ~CannotLoad(PathB)
    /\ dir_results[PathB][1].rule_id = "R009"

(* the document of the visualinfo file of the directory of the path *)
DocumentOfDirectory(path) ==
    RuleBasedFixerOn(file_system, Parent(path)).visualinfo_data

(* C19: in every call of auto_fix_file the fixer that runs was built on    *)
(* the directory of the file of that call, and the document it ran on is   *)
(* that directory's document, as loaded or as an earlier run left it.      *)
C19_FixerRunsOnCalledDocument ==
    (lastOp = "auto_fix_file" /\ ~raised) =>
        /\ controller_fixer = <<"RuleBasedFixer", Parent(called_path)>>
        /\ before \in {DocumentOfDirectory(called_path),
                       run_all_rule_fixes(DocumentOfDirectory(called_path)).data}

-----------------------------------------------------------------------------
(* The rule set of tests/test_rules.py: RuleValidator of                   *)
(* src/src/core/rule_validator_backup.py.                                  *)

(* _validate_r001_listtext_to_paratext(elements, file_path): the issues    *)
(* and the found elements, each with the index elements.index() gives      *)
validate_r001_listtext_to_paratext(elements, file_path) ==
    LET label(i) == ElementLabel(elements[i])
        text(i) == Strip(ElementText(elements[i]))
        element_id(i) == ElementId(elements[i])
        flagged(i) == /\ label(i) = "ListText"
                      /\ \/ Contains(text(i), TextWonmun)
                         \/ Contains(text(i), TextBeonyeokmun)
    IN  [issues |-> ConcatIssues([i \in 1..Len(elements) |->
            IF flagged(i)
            THEN <<create_label_issue("R001",
                       PyFmt(<<"ListText -> ParaText needed",
                               Prefix(text(i), 30)>>),
                       PyStr(element_id(i)), PyStr(file_path),
                       PyStr("ListText"), PyStr("ParaText"), PyNone)>>
            ELSE <<>>], 1),
         found_elements |-> ConcatIssues([i \in 1..Len(elements) |->
            IF flagged(i)
            THEN <<[element_id |-> element_id(i), text |-> text(i),
                    index |-> IndexOf(elements, elements[i])]>>
            ELSE <<>>], 1)]

(* _validate_r002_regiontitle_to_paratitle when it flags the preceding     *)
(* RegionTitle whatever its text holds                                     *)
validate_r002_regiontitle_any_text(elements, file_path, found_elements) ==
    ConcatIssues([k \in 1..Len(found_elements) |->
        LET found_index == found_elements[k].index
            prev_element == elements[found_index]
            text == Strip(ElementText(prev_element))
        IN  IF found_index > 0 /\ ElementLabel(prev_element) = "RegionTitle"
            THEN <<create_label_issue("R002",
                       PyFmt(<<"RegionTitle -> ParaTitle needed",
                               Prefix(text, 50)>>),
                       PyStr(ElementId(prev_element)), PyStr(file_path),
                       PyStr("RegionTitle"), PyStr("ParaTitle"), PyNone)>>
            ELSE <<>>], 1)

(* _validate_r002_regiontitle_to_paratitle(elements, file_path,            *)
(* found_elements); "square" is the one character "□"                      *)
validate_r002_regiontitle_to_paratitle(elements, file_path, found_elements) ==
    ConcatIssues([k \in 1..Len(found_elements) |->
        LET found_index == found_elements[k].index
            prev_element == elements[found_index]    \* elements[found_index - 1]
            label == ElementLabel(prev_element)
            text == Strip(ElementText(prev_element))
            has_number == \E i \in 1..Len(text) : IsDigit(text[i])
            has_square == Contains(text, <<"square">>)
        IN  IF /\ found_index > 0
               /\ label = "RegionTitle"
               /\ ~(has_number \/ has_square)
            THEN <<create_label_issue("R002",
                       PyFmt(<<"RegionTitle -> ParaTitle needed",
                               Prefix(text, 50)>>),
                       PyStr(ElementId(prev_element)), PyStr(file_path),
                       PyStr("RegionTitle"), PyStr("ParaTitle"), PyNone)>>
            ELSE <<>>], 1)

(* the heading pattern without its optional blanks: r'^제\d+<unit>' *)
ArticleHeadNoBlanks(text, unit) ==
    MLit(text, MDigits(text, MLit(text, 1, <<"je">>), 1, Len(text)),
         <<unit>>) # 0

(* r'^제\s*\d+\s*<unit>' for the unit 편, 장, 절 or 조 *)
ArticleHead(text, unit) ==
    MLit(text, MSpaces(text, MDigits(text, MSpaces(text,
         MLit(text, 1, <<"je">>)), 1, Len(text))), <<unit>>) # 0

(* _validate_r003_law_structure(elements, file_path); the metadata of an   *)
(* issue gets target_type after the factory returns                        *)
validate_r003_law_structure(elements, file_path) ==
    ConcatIssues([i \in 1..Len(elements) |->
        LET element == elements[i]
            text == Strip(ElementText(element))
            current_label == ElementLabel(element)
            law_name == /\ Len(text) >= 2              \* r'[가-힣]+법$'
                        /\ text[Len(text)] = "beop"
                        /\ IsHangul(text[Len(text) - 1])
            should_be_paratitle ==
                \/ law_name
                \/ ArticleHead(text, "pyeon") \/ ArticleHead(text, "jang")
                \/ ArticleHead(text, "jeol") \/ ArticleHead(text, "jo")
            sub_paren ==                               \* r'^\s*\(\d+\)'
                MLit(text, MDigits(text, MLit(text, MSpaces(text, 1), <<"(">>),
                                   1, Len(text)), <<")">>) # 0
            sub_number ==                              \* r'^\s*\d+\.'
                MLit(text, MDigits(text, MSpaces(text, 1), 1, Len(text)),
                     <<".">>) # 0
            sub_hangul ==                              \* r'^\s*[가-힣]\.'
                /\ IsHangul(At(text, MSpaces(text, 1)))
                /\ At(text, MSpaces(text, 1) + 1) = "."
            prev_text == Strip(ElementText(elements[i - 1]))
            should_be_listtext ==
                IF sub_paren \/ sub_number \/ sub_hangul
                THEN IF i > 1 THEN ArticleHead(prev_text, "jo") ELSE sub_paren
                ELSE Contains(text, <<"hang">>) /\ current_label # "ListText"
            issue(new_label, target_type) ==
                LET made == create_label_issue("R003",
                                PyFmt(<<"law structure", new_label,
                                        Prefix(text, 50)>>),
                                PyStr(ElementId(element)), PyStr(file_path),
                                PyStr(current_label), PyStr(new_label), PyNone)
                IN  [made EXCEPT !.metadata =
                        Put(made.metadata, "target_type", PyStr(target_type))]
        IN  IF text = <<>> THEN <<>>
            ELSE (IF should_be_paratitle /\ current_label # "ParaTitle"
                  THEN <<issue("ParaTitle", "HEADING")>> ELSE <<>>)
                 \o
                 (IF should_be_listtext /\ current_label # "ListText"
                  THEN <<issue("ListText", "LIST")>> ELSE <<>>)], 1)

(* Python's argument binding on create_content_issue(rule_id, element_id,  *)
(* content, issue_description, file_path, page_index=None): a call with    *)
(* npos positional arguments and the given keywords raises TypeError when  *)
(* a keyword names no parameter, names a parameter a positional argument   *)
(* already bound, or a parameter without a default stays unbound           *)
create_content_issue_raises(npos, keywords) ==
    LET parameters == <<"rule_id", "element_id", "content",
                        "issue_description", "file_path", "page_index">>
        required == Len(parameters) - 1
    IN  \/ npos > Len(parameters)
        \/ \E k \in keywords : k \notin Range(parameters)
        \/ \E k \in keywords : \E j \in 1..npos : j <= Len(parameters)
                                                   /\ parameters[j] = k
        \/ \E j \in (npos + 1)..required : parameters[j] \notin keywords

(* the words of a text: the maximal runs of \w characters, each as the     *)
(* pair of its first and last position; a pattern between two \b that      *)
(* consumes only \w characters matches whole words only                    *)
WordSpans(text) ==
    LET word_chars == Range(AsciiUpper) \cup Range(AsciiLower) \cup Digits
                          \cup {"_"} \cup HangulSyllables
    IN  { <<i, SkipClass(text, i, word_chars) - 1>> :
            i \in { j \in 1..Len(text) :
                      IsWord(text[j]) /\ (j = 1 \/ ~IsWord(text[j - 1])) } }

(* corrupted_patterns: r'[A-Z]{4,}[0-9]*', r'[A-Z]+CD[0-9]*',              *)
(* r'[A-Z]+EE[A-Z]*', r'\b[A-Z]{6,}\b'                                     *)
MatchesCorrupted(text) ==
    LET upper(c) == c \in Range(AsciiUpper)
    IN  \/ \E i \in 1..Len(text) : \A k \in 0..3 : upper(At(text, i + k))
        \/ \E i \in 1..Len(text) :
              upper(text[i]) /\ MatchAt(text, i + 1, <<"C", "D">>)
        \/ \E i \in 1..Len(text) :
              upper(text[i]) /\ MatchAt(text, i + 1, <<"E", "E">>)
        \/ \E w \in WordSpans(text) :
              w[2] - w[1] + 1 >= 6 /\ \A k \in w[1]..w[2] : upper(text[k])

(* suspicious_english_patterns: for one of them, matches and               *)
(* len(matches) > len(text.split()) * 0.3                                  *)
MatchesSuspiciousEnglish(text) ==
    LET upper(c) == c \in Range(AsciiUpper)
        lower(c) == c \in Range(AsciiLower)
        consonant(c) == lower(c) /\ c \notin {"a", "e", "i", "o", "u"}
        word(w) == SubSeq(text, w[1], w[2])
        camel(w) ==                          \* r'\b[a-z]+[A-Z][a-z]+\b'
            \E k \in 2..(Len(w) - 1) :
                upper(w[k]) /\ \A j \in 1..Len(w) : j # k => lower(w[j])
        consonants(w) ==                     \* r'\b[bcdfghjklmnpqrstvwxyz]{3,}\b'
            Len(w) >= 3 /\ \A j \in 1..Len(w) : consonant(w[j])
        pascal(w) ==                         \* r'\b[A-Z][a-z]*[A-Z][a-z]*\b'
            \E k \in 2..Len(w) :
                /\ upper(w[1]) /\ upper(w[k])
                /\ \A j \in 2..Len(w) : j # k => lower(w[j])
        counts ==                            \* len(re.findall(pattern, text))
            <<Cardinality({ w \in WordSpans(text) : camel(word(w)) }),
              Cardinality({ w \in WordSpans(text) : consonants(word(w)) }),
              Cardinality({ w \in WordSpans(text) : pascal(word(w)) })>>
        split_count ==                       \* len(text.split())
            Cardinality({ j \in 1..Len(text) :
                            ~IsSpace(text[j]) /\ (j = 1 \/ IsSpace(text[j - 1])) })
    IN  \E p \in 1..3 : counts[p] > 0 /\ 10 * counts[p] > 3 * split_count

(* invalid_char_patterns: a character outside                              *)
(* [\w\s가-힣\[\]().,!?;:'"<>{}|\\/@#$%^&*+=~`-], or a control character   *)
MatchesInvalidChars(text) ==
    LET allowed == {"[", "]", "(", ")", ".", ",", "!", "?", ";", ":", "'",
                    "\"", "<", ">", "{", "}", "|", "\\", "/", "@", "#", "$",
                    "%", "^", "&", "*", "+", "=", "~", "backtick", "-"}
        control == {"\t", "\n"}
    IN  \E i \in 1..Len(text) :
            \/ ~(IsWord(text[i]) \/ IsSpace(text[i]) \/ text[i] \in allowed)
            \/ text[i] \in control

(* _is_korean_document_context(elements) *)
is_korean_document_context(elements) ==
    LET texts == { i \in 1..Len(elements) :
                     Strip(ElementText(elements[i])) # <<>> }
        korean == { i \in texts :
                      \E k \in 1..Len(ElementText(elements[i])) :
                          IsHangul(ElementText(elements[i])[k]) }
    IN  Cardinality(texts) > 0 /\ 2 * Cardinality(korean) >= Cardinality(texts)

(* the rule-4 body that stands after the module's entry point, as the      *)
(* method validate_all_rules calls: every finding is reported through      *)
(* create_content_issue(rule, message, file_path, element_id=...,          *)
(* current_value=..., suggested_action=...)                                *)
validate_r004_korean_encoding(elements, file_path) ==
    LET finds(i) ==
            LET text == ElementText(elements[i])
            IN  /\ text # <<>>
                /\ \/ MatchesCorrupted(text)
                   \/ /\ is_korean_document_context(elements)
                      /\ Len(text) > 3
                      /\ MatchesSuspiciousEnglish(text)
                   \/ MatchesInvalidChars(text)
        call_raises == create_content_issue_raises(3,
                           {"element_id", "current_value", "suggested_action"})
    IN  [raised |-> call_raises /\ \E i \in 1..Len(elements) : finds(i),
         issues |-> <<>>]           \* no finding ever reaches the factory's body

(* validate_all_rules(data, file_path) of the rule set: what it returns,   *)
(* or that it raised                                                       *)
backup_validate_all_rules(data, file_path) ==
    LET elements == Get(data, "elements", <<>>)
        r001 == validate_r001_listtext_to_paratext(elements, file_path)
        r002 == IF r001.found_elements # <<>>
                THEN validate_r002_regiontitle_to_paratitle(
                         elements, file_path, r001.found_elements)
                ELSE <<>>
        r003 == validate_r003_law_structure(elements, file_path)
        r004 == validate_r004_korean_encoding(elements, file_path)
    IN  IF elements = <<>>
        THEN [raised |-> FALSE,
              issues |-> <<create_structure_issue("STRUCTURE_001", "no elements",
                                                  PyStr(file_path))>>]
        ELSE IF r004.raised THEN [raised |-> TRUE, issues |-> <<>>]
        ELSE [raised |-> FALSE,
              issues |-> r001.issues \o r002 \o r003 \o r004.issues]

MaxBackupElements == 3

BackupShapes ==
    { \* "총칙", RegionTitle
      [content |-> [text |-> <<"chong", "chik">>],
       category |-> [label |-> "RegionTitle"], pageIndex |-> 0],
      \* "원문", ListText
      [content |-> [text |-> TextWonmun],
       category |-> [label |-> "ListText"], pageIndex |-> 0],
      \* "□ 제1장", RegionTitle
      [content |-> [text |-> <<"square", " ", "je", "1", "jang">>],
       category |-> [label |-> "RegionTitle"], pageIndex |-> 0],
      \* "번역문", ListText
      [content |-> [text |-> TextBeonyeokmun],
       category |-> [label |-> "ListText"], pageIndex |-> 0],
      \* "원문", ParaText
      [content |-> [text |-> TextWonmun],
       category |-> [label |-> "ParaText"], pageIndex |-> 0],
      \* "본문", ListText
      [content |-> [text |-> TextBonmun],
       category |-> [label |-> "ListText"], pageIndex |-> 0],
      \* "원문 본문", ListText
      [content |-> [text |-> <<"won", "mun", " ", "bon", "mun">>],
       category |-> [label |-> "ListText"], pageIndex |-> 0],
      \* "제1장", RegionTitle
      [content |-> [text |-> <<"je", "1", "jang">>],
       category |-> [label |-> "RegionTitle"], pageIndex |-> 0] }

InitBackup ==
    /\ visualinfo_data \in Documents(BackupShapes, MaxBackupElements)
    /\ visualinfo_file = "None"
    /\ disk = NoFile
    /\ before = visualinfo_data
    /\ fixes = <<>>
    /\ all_fixes = NoFixes
    /\ issues = <<>>
    /\ lastOp = "__init__"
    /\ saved = "None"
    /\ raised = FALSE
    /\ diskBefore = disk
    /\ NoController

BackupValidateAllRules ==
    /\ lastOp = "__init__"
    /\ LET r == backup_validate_all_rules(visualinfo_data, FilePath)
       IN  /\ issues' = r.issues
           /\ raised' = r.raised
    /\ before' = visualinfo_data
    /\ fixes' = <<>>
    /\ all_fixes' = NoFixes
    /\ lastOp' = "backup_validate_all_rules"
    /\ UNCHANGED <<visualinfo_data, visualinfo_file, disk, saved, diskBefore,
                   file_system, controller_fixer, dir_results, called_path>>

NextBackup == BackupValidateAllRules

SpecBackup == InitBackup /\ [][NextBackup]_vars

(* C20: after validate_all_rules of the rule set, the R001 issues are      *)
(* exactly one for every element labelled ListText whose text contains     *)
(* "원문" or "번역문", and none for any other element.                     *)
C20_R001ExactlyListTextOriginals ==
    lastOp = "backup_validate_all_rules" =>
        \A i \in 1..Len(ElementsOf(before)) :
            LET element == ElementsOf(before)[i]
                text == ElementText(element)
                expected == IF /\ ElementLabel(element) = "ListText"
                               /\ \/ Contains(text, TextWonmun)
                                  \/ Contains(text, TextBeonyeokmun)
                            THEN 1 ELSE 0
            IN  Cardinality({ k \in 1..Len(issues) :
                                /\ issues[k].rule_id = "R001"
                                /\ issues[k].element_id = PyStr(ElementId(element)) })
                    = expected

(* the element the rule set's R001 flags: ListText whose text holds "원문" *)
(* or "번역문"                                                             *)
IsR001Flagged(e) ==
    /\ ElementLabel(e) = "ListText"
    /\ \/ Contains(ElementText(e), TextWonmun)
       \/ Contains(ElementText(e), TextBeonyeokmun)
HasDigitOrSquare(e) ==
    \E i \in 1..Len(ElementText(e)) :
        IsDigit(ElementText(e)[i]) \/ ElementText(e)[i] = "square"
R002FlaggedPositions ==
    { i \in 1..Len(ElementsOf(before)) :
        \E k \in 1..Len(issues) :
            /\ issues[k].rule_id = "R002"
            /\ issues[k].element_id = PyStr(ElementId(ElementsOf(before)[i])) }

-----------------------------------------------------------------------------
(* The law-structure rule of the rule set, applied on its own.             *)

MaxLawElements == 3

LawShapes ==
    { \* "총칙법", ParaText
      [content |-> [text |-> <<"chong", "chik", "beop">>],
       category |-> [label |-> "ParaText", type |-> "PARAGRAPH"]],
      \* "제1조", ParaText
      [content |-> [text |-> <<"je", "1", "jo">>],
       category |-> [label |-> "ParaText", type |-> "PARAGRAPH"]],
      \* "제1조", ParaTitle
      [content |-> [text |-> <<"je", "1", "jo">>],
       category |-> [label |-> "ParaTitle", type |-> "HEADING"]],
      \* "(1) 총칙", ParaText
      [content |-> [text |-> <<"(", "1", ")", " ", "chong", "chik">>],
       category |-> [label |-> "ParaText", type |-> "PARAGRAPH"]],
      \* "1. 총칙", ParaText
      [content |-> [text |-> <<"1", ".", " ", "chong", "chik">>],
       category |-> [label |-> "ParaText", type |-> "PARAGRAPH"]],
      \* "가. 총칙", ListText
      [content |-> [text |-> <<"ga", ".", " ", "chong", "chik">>],
       category |-> [label |-> "ListText", type |-> "LIST"]],
      \* "1항", ParaText
      [content |-> [text |-> <<"1", "hang">>],
       category |-> [label |-> "ParaText", type |-> "PARAGRAPH"]],
      \* "총칙", ParaText
      [content |-> [text |-> <<"chong", "chik">>],
       category |-> [label |-> "ParaText", type |-> "PARAGRAPH"]],
      \* "제 2 장 총칙", RegionTitle
      [content |-> [text |-> <<"je", " ", "2", " ", "jang", " ", "chong", "chik">>],
       category |-> [label |-> "RegionTitle", type |-> "HEADING"]] }

InitLaw ==
    /\ visualinfo_data \in Documents(LawShapes, MaxLawElements)
    /\ visualinfo_file = "None"
    /\ disk = NoFile
    /\ before = visualinfo_data
    /\ fixes = <<>>
    /\ all_fixes = NoFixes
    /\ issues = <<>>
    /\ lastOp = "__init__"
    /\ saved = "None"
    /\ raised = FALSE
    /\ diskBefore = disk
    /\ NoController

ValidateR003LawStructure ==
    /\ lastOp = "__init__"
    /\ ElementsOf(visualinfo_data) # <<>>
    /\ issues' = validate_r003_law_structure(ElementsOf(visualinfo_data), FilePath)
    /\ before' = visualinfo_data
    /\ fixes' = <<>>
    /\ all_fixes' = NoFixes
    /\ lastOp' = "validate_r003_law_structure"
    /\ UNCHANGED <<visualinfo_data, visualinfo_file, disk, saved, raised,
                   diskBefore, file_system, controller_fixer, dir_results,
                   called_path>>

NextLaw == ValidateR003LawStructure

SpecLaw == InitLaw /\ [][NextLaw]_vars

(* a statute heading: the text ends in a Hangul syllable and "법", or      *)
(* starts with "제", a number and one of 편, 장, 절, 조                    *)
IsArticleHeading(text, units) ==
    LET a == SkipClass(text, 2, Whitespace)
        b == SkipClass(text, a, Digits)
        c == SkipClass(text, b, Whitespace)
    IN  At(text, 1) = "je" /\ b > a /\ At(text, c) \in units
IsStatuteHeading(text) ==
    \/ IsArticleHeading(text, {"pyeon", "jang", "jeol", "jo"})
    \/ Len(text) >= 2 /\ text[Len(text)] = "beop" /\ IsHangul(text[Len(text) - 1])
(* a numbered subitem: "(1)", "1." or "가." at the start *)
IsParenSubitem(text) ==
    LET b == SkipClass(text, 2, Digits)
    IN  At(text, 1) = "(" /\ b > 2 /\ At(text, b) = ")"
IsNumberedSubitem(text) ==
    \/ IsParenSubitem(text)
    \/ LET b == SkipClass(text, 1, Digits) IN b > 1 /\ At(text, b) = "."
    \/ IsHangul(At(text, 1)) /\ At(text, 2) = "."
(* the positions for which the rule suggests new_label with target_type *)
LawSuggested(new_label, target_type) ==
    { i \in 1..Len(ElementsOf(before)) :
        \E k \in 1..Len(issues) :
            /\ issues[k].rule_id = "R003"
            /\ issues[k].element_id = PyStr(ElementId(ElementsOf(before)[i]))
            /\ Get(issues[k].metadata, "new_label", PyNone) = PyStr(new_label)
            /\ Get(issues[k].metadata, "target_type", PyNone) = PyStr(target_type) }
LawText(i) == Strip(ElementText(ElementsOf(before)[i]))
LawLabel(i) == ElementLabel(ElementsOf(before)[i])
FollowsArticle(i) == i > 1 /\ IsArticleHeading(LawText(i - 1), {"jo"})
EveryLawIssueTyped ==
    \A k \in 1..Len(issues) :
        <<Get(issues[k].metadata, "new_label", PyNone),
          Get(issues[k].metadata, "target_type", PyNone)>>
            \in {<<PyStr("ParaTitle"), PyStr("HEADING")>>,
                 <<PyStr("ListText"), PyStr("LIST")>>}

C23_SecondValidationSeesFixes ==
    (lastOp = "auto_fix_file" /\ ~raised /\ visualinfo_file = "found") =>
        /\ issues = validate_all_rules(visualinfo_data, called_path)
        /\ (\E i \in 1..Len(ElementsOf(before)) :
               IsListTextMarker(ElementsOf(before)[i]))
              => Len(issues) < Len(validate_file(file_system, called_path))

(* C24: for every element fix_label_types relabels, validate on the        *)
(* document before the pass reports an R009 issue for that element and     *)
(* validate on the document after it reports none for it.                  *)
C24_RelabeledWasReported ==
    lastOp \in {"fix_label_types", "run_all_rule_fixes"} =>
        LET old == validate_all_rules(before, FilePath)
            new == validate_all_rules(visualinfo_data, FilePath)
            reported(list, e) ==
                \E k \in 1..Len(list) :
                    /\ list[k].rule_id = "R009"
                    /\ list[k].element_id = PyStr(ElementId(e))
        IN  \A i \in 1..Len(ElementsOf(before)) :
                IsListTextMarker(ElementsOf(before)[i]) =>
                    /\ reported(old, ElementsOf(before)[i])
                    /\ ~reported(new, ElementsOf(before)[i])

-----------------------------------------------------------------------------
(* SpecPasses: the Fixer of Spec on documents whose elements share pages   *)
(* and positions, some of them without text.                               *)

MaxPassElements == 3

PassShapes ==
    { \* " ", ListText, page 1: a text of blanks only
      [content |-> [text |-> <<" ">>],
       category |-> [label |-> "ListText", type |-> "LIST"],
       pageIndex |-> 1, bbox |-> [top |-> 4]],
      \* "원문", ListText, page 0
      [content |-> [text |-> TextWonmun],
       category |-> [label |-> "ListText", type |-> "LIST"],
       pageIndex |-> 0, bbox |-> [top |-> 2]],
      \* "별첨", ParaText, page 0, higher on the page
      [content |-> [text |-> TextByeolcheom],
       category |-> [label |-> "ParaText", type |-> "PARAGRAPH"],
       pageIndex |-> 0, bbox |-> [top |-> 1]],
      \* no text at all, ParaText, page 0, as high as "원문"
      [content |-> [text |-> <<>>],
       category |-> [label |-> "ParaText", type |-> "PARAGRAPH"],
       pageIndex |-> 0, bbox |-> [top |-> 2]],
      \* "본문", ParaText, page 1, higher on the page
      [content |-> [text |-> TextBonmun],
       category |-> [label |-> "ParaText", type |-> "PARAGRAPH"],
       pageIndex |-> 1, bbox |-> [top |-> 1]] }

InitPasses ==
    /\ \E file \in {File(Dump(d)) : d \in Documents(PassShapes, MaxPassElements)} :
          /\ disk = file
          /\ visualinfo_data = fixer_init(file).visualinfo_data
          /\ visualinfo_file = fixer_init(file).visualinfo_file
    /\ before = visualinfo_data
    /\ fixes = <<>>
    /\ all_fixes = NoFixes
    /\ issues = <<>>
    /\ lastOp = "__init__"
    /\ saved = "None"
    /\ raised = FALSE
    /\ diskBefore = disk
    /\ NoController

SpecPasses == InitPasses /\ [][Next]_vars

(* C25: run_all_rule_fixes neither removes nor relabels an element whose   *)
(* text is empty, and every R001 issue validate reports on the document    *)
(* before the run is reported, for the same element, on the document after *)
(* it.                                                                     *)
C25_EmptyTextSurvives ==
    lastOp = "run_all_rule_fixes" =>
        /\ \A i \in 1..Len(ElementsOf(before)) :
              LET e == ElementsOf(before)[i]
              IN  Strip(ElementText(e)) = <<>> =>
                    \E j \in 1..Len(ElementsOf(visualinfo_data)) :
                        LET f == ElementsOf(visualinfo_data)[j]
                        IN  /\ ElementId(f) = ElementId(e)
                            /\ ElementLabel(f) = ElementLabel(e)
                            /\ ElementText(f) = ElementText(e)
        /\ LET old == validate_all_rules(before, FilePath)
               new == validate_all_rules(visualinfo_data, FilePath)
           IN  \A k \in 1..Len(old) :
                   old[k].rule_id = "R001" =>
                       /\ old[k].severity = "error"
                       /\ old[k].auto_fixable
                       /\ \E j \in 1..Len(new) :
                              /\ new[j].rule_id = "R001"
                              /\ new[j].element_id = old[k].element_id

(* a run that removed one element and relabelled another while an element  *)
(* with empty text stayed                                                  *)
C25_Witness ==
    /\ lastOp = "run_all_rule_fixes"
    /\ Len(ElementsOf(visualinfo_data)) < Len(ElementsOf(before))
    /\ all_fixes.labels # <<>>
    /\ \E i \in 1..Len(ElementsOf(before)) :
          Strip(ElementText(ElementsOf(before)[i])) = <<>>

(* the positions of the elements that share the normalized text pattern of *)
(* element i and enter R002's grouping                                     *)
PatternGroup(elements, i) ==
    { j \in 1..Len(elements) :
        /\ Strip(ElementText(elements[j])) # <<>>
        /\ ElementLabel(elements[j]) # ""
        /\ TextPattern(Strip(ElementText(elements[j])))
              = TextPattern(Strip(ElementText(elements[i]))) }
(* the most frequent label of a group; on equal counts the one that occurs *)
(* first in document order                                                 *)
MajorityLabel(elements, group) ==
    LET count(l) == Cardinality({ j \in group : ElementLabel(elements[j]) = l })
        first(l) == CHOOSE j \in group :
                        /\ ElementLabel(elements[j]) = l
                        /\ \A k \in group : ElementLabel(elements[k]) = l => j <= k
        top == CHOOSE j \in group :
                  \A k \in group :
                      LET lj == ElementLabel(elements[j])
                          lk == ElementLabel(elements[k])
                      IN  \/ count(lk) < count(lj)
                          \/ count(lk) = count(lj) /\ first(lj) <= first(lk)
    IN  ElementLabel(elements[top])
(* the elements R002 is to flag *)
ShouldBeFlaggedR002(elements) ==
    { i \in 1..Len(elements) :
        /\ i \in PatternGroup(elements, i)
        /\ Len(TextPattern(Strip(ElementText(elements[i])))) >= MinPatternLen
        /\ Cardinality(PatternGroup(elements, i)) >= 2
        /\ ElementLabel(elements[i])
              # MajorityLabel(elements, PatternGroup(elements, i)) }

(* C26: the R002 issues are exactly one for every element of a group of    *)
(* two or more elements with one text pattern of length >= 3 whose label   *)
(* differs from the group's recommended label: the most frequent label,    *)
(* on equal counts the tied label met first in document order.             *)
C26_MinorityLabelsFlagged ==
    lastOp = "validate_all_rules" =>
        LET elements == ElementsOf(before)
        IN  \A i \in 1..Len(elements) :
                Cardinality({ k \in 1..Len(issues) :
                                /\ issues[k].rule_id = "R002"
                                /\ issues[k].element_id
                                      = PyStr(ElementId(elements[i])) })
                    = IF i \in ShouldBeFlaggedR002(elements) THEN 1 ELSE 0


(* the position of the element with the given id *)
PlaceOfId(elements, id) ==
    CHOOSE i \in 1..Len(elements) : ElementId(elements[i]) = id

(* C27: fix_element_order replaces the elements by a permutation of them   *)
(* with the pages in ascending pageIndex and, inside a page, the elements  *)
(* in non-decreasing bbox.top, those of equal top in their original order; *)
(* it returns one FixResult if the order of the ids changed and none       *)
(* otherwise.                                                              *)
C27_OrderPassSortsStably ==
    lastOp = "fix_element_order" =>
        LET old == ElementsOf(before)
            new == ElementsOf(visualinfo_data)
        IN  /\ Len(new) = Len(old)
            /\ \A i \in 1..Len(old) :
                  Cardinality({ j \in 1..Len(new) : new[j] = old[i] }) = 1
            /\ \A j, k \in 1..Len(new) :
                  j < k =>
                    /\ ElementPage(new[j]) <= ElementPage(new[k])
                    /\ ElementPage(new[j]) = ElementPage(new[k])
                          => ElementTop(new[j]) <= ElementTop(new[k])
                    /\ (/\ ElementPage(new[j]) = ElementPage(new[k])
                        /\ ElementTop(new[j]) = ElementTop(new[k]))
                          => PlaceOfId(old, ElementId(new[j]))
                                < PlaceOfId(old, ElementId(new[k]))
            /\ Len(fixes) = IF IdsOf(new) # IdsOf(old) THEN 1 ELSE 0

C27_Witness ==
    /\ lastOp = "fix_element_order"
    /\ Len(fixes) = 1
    /\ LET old == ElementsOf(before)
           new == ElementsOf(visualinfo_data)
       IN  /\ \E j, k \in 1..Len(new) :
                 /\ j < k
                 /\ ElementPage(new[j]) = ElementPage(new[k])
                 /\ ElementTop(new[j]) = ElementTop(new[k])
           /\ \E j, k \in 1..Len(old) :
                 j < k /\ ElementPage(old[j]) > ElementPage(old[k])


(* the stored order of a page does not decrease in bbox.top *)
PageInOrder(elements, page_idx) ==
    LET page_elements == PageGroup(elements, page_idx)
    IN  \A j, k \in 1..Len(page_elements) :
            j < k => ElementTop(page_elements[j]) <= ElementTop(page_elements[k])
R006IssuesOf(data) ==
    SelectSeq(validate_all_rules(data, FilePath), LAMBDA q : q.rule_id = "R006")

(* C28: after fix_element_order validate reports no R006 issue, and a      *)
(* second fix_element_order returns no FixResult and leaves the elements   *)
(* as they are; R006 reports no issue for a page whose stored order does   *)
(* not decrease in bbox.top.                                               *)
C28_OrderPassSettlesR006 ==
    lastOp = "fix_element_order" =>
        /\ R006IssuesOf(visualinfo_data) = <<>>
        /\ fix_element_order(visualinfo_data).fixes = <<>>
        /\ fix_element_order(visualinfo_data).data = visualinfo_data
        /\ \A page_idx \in PageIndexes(ElementsOf(before)) :
              PageInOrder(ElementsOf(before), page_idx) =>
                  \A k \in 1..Len(R006IssuesOf(before)) :
                      R006IssuesOf(before)[k].page_index # PyInt(page_idx)

C28_Witness ==
    /\ lastOp = "fix_element_order"
    /\ fixes # <<>>
    /\ R006IssuesOf(before) # <<>>
    /\ \E page_idx \in PageIndexes(ElementsOf(before)) :
          /\ PageInOrder(ElementsOf(before), page_idx)
          /\ Len(PageGroup(ElementsOf(before), page_idx)) >= 1
    /\ R006IssuesOf(visualinfo_data) = <<>>


(* C29: fix_table_structure changes nothing in the document and returns no *)
(* FixResult: a table without cells is skipped and the transform of a      *)
(* translation table returns a copy equal to the table.                    *)
C29_TablePassChangesNothing ==
    lastOp = "fix_table_structure" =>
        /\ visualinfo_data = before
        /\ fixes = <<>>
        /\ \A i \in 1..Len(ElementsOf(before)) :
              fix_translation_table_order(ElementsOf(before)[i])
                  = ElementsOf(before)[i]

C29_Witness ==
    /\ lastOp = "fix_table_structure"
    /\ \E i, j \in 1..Len(ElementsOf(before)) :
          LET t == ElementsOf(before)[i]
              u == ElementsOf(before)[j]
          IN  /\ ElementType(t) = "TABLE"
              /\ is_translation_table(t)
              /\ Len(ElementCells(t)) >= 2
              /\ ElementType(u) = "TABLE"
              /\ ElementCells(u) = <<>>


-----------------------------------------------------------------------------
(* SpecDates: validate_all_rules called on documents of dated elements.    *)

MaxDateElements == 3

DateShapes ==
    { \* "2021-2-3" under a label that is not Date
      [content |-> [text |-> <<"2", "0", "2", "1", "-", "2", "-", "3">>],
       category |-> [label |-> "ParaText", type |-> "PARAGRAPH"],
       pageIndex |-> 0, bbox |-> [top |-> 1]],
      \* "2021-02-03" labelled Date
      [content |-> [text |-> <<"2", "0", "2", "1", "-", "0", "2", "-", "0", "3">>],
       category |-> [label |-> "Date", type |-> "PARAGRAPH"],
       pageIndex |-> 0, bbox |-> [top |-> 2]],
      \* "2021. 2. 3 작성", ListText
      [content |-> [text |-> <<"2", "0", "2", "1", ".", " ", "2", ".", " ", "3",
                               " ", "jak", "seong">>],
       category |-> [label |-> "ListText", type |-> "LIST"],
       pageIndex |-> 0, bbox |-> [top |-> 3]],
      \* "2021년 2월 3일 본문": a date followed by other text
      [content |-> [text |-> <<"2", "0", "2", "1", "nyeon", " ", "2", "wol",
                               " ", "3", "il", " ">> \o TextBonmun],
       category |-> [label |-> "ParaTitle", type |-> "HEADING"],
       pageIndex |-> 0, bbox |-> [top |-> 4]],
      \* " 2021.2.3 " between blanks
      [content |-> [text |-> <<" ", "2", "0", "2", "1", ".", "2", ".", "3", " ">>],
       category |-> [label |-> "ParaText", type |-> "PARAGRAPH"],
       pageIndex |-> 1, bbox |-> [top |-> 1]],
      \* "2021-2-3 작성": the dashed form followed by text
      [content |-> [text |-> <<"2", "0", "2", "1", "-", "2", "-", "3",
                               " ", "jak", "seong">>],
       category |-> [label |-> "ParaText", type |-> "PARAGRAPH"],
       pageIndex |-> 1, bbox |-> [top |-> 2]],
      \* "2021. 2. 345": a third number of three digits
      [content |-> [text |-> <<"2", "0", "2", "1", ".", " ", "2", ".", " ",
                               "3", "4", "5">>],
       category |-> [label |-> "ParaText", type |-> "PARAGRAPH"],
       pageIndex |-> 1, bbox |-> [top |-> 3]],
      \* no text
      [content |-> [text |-> <<>>],
       category |-> [label |-> "ParaText", type |-> "PARAGRAPH"],
       pageIndex |-> 1, bbox |-> [top |-> 4]] }

InitDates ==
    /\ visualinfo_data \in Documents(DateShapes, MaxDateElements)
    /\ visualinfo_file = "None"
    /\ disk = NoFile
    /\ before = visualinfo_data
    /\ fixes = <<>>
    /\ all_fixes = NoFixes
    /\ issues = <<>>
    /\ lastOp = "__init__"
    /\ saved = "None"
    /\ raised = FALSE
    /\ diskBefore = disk
    /\ NoController

SpecDates == InitDates /\ [][NextValidate]_vars

(* the text of the element, stripped, is matched by a date expression *)
IsDateLiteral(element) ==
    LET text == Strip(ElementText(element))
    IN  \/ DateYearMonthDay(text) \/ DateDotted(text)
        \/ DateDashed(text) \/ DateDottedWritten(text)
(* the elements without the one at position i *)
WithoutElement(elements, i) ==
    SubSeq(elements, 1, i - 1) \o SubSeq(elements, i + 1, Len(elements))
IssuesWithRule(list, rule_id) == SelectSeq(list, LAMBDA q : q.rule_id = rule_id)

(* C30: R004 and R010 flag the same elements: their issues differ in the   *)
(* rule id only, both lists are in the result of validate, and an element  *)
(* adds one issue to each list if its text is a date literal and its label *)
(* is not Date, and none otherwise.                                        *)
C30_DateRulesAgree ==
    lastOp = "validate_all_rules" =>
        LET elements == ElementsOf(before)
            r004 == IssuesWithRule(issues, "R004")
            r010 == IssuesWithRule(issues, "R010")
        IN  /\ r004 = validate_r004_date_format(elements, FilePath)
            /\ r010 = validate_r010_date_pattern_labels(elements, FilePath)
            /\ Len(r004) = Len(r010)
            /\ \A k \in 1..Len(r004) :
                  [r010[k] EXCEPT !.rule_id = "R004"] = r004[k]
            /\ \A i \in 1..Len(elements) :
                  LET rest == WithoutElement(elements, i)
                      yields == IF /\ IsDateLiteral(elements[i])
                                   /\ ElementLabel(elements[i]) # "Date"
                                THEN 1 ELSE 0
                  IN  /\ Len(r004)
                            - Len(validate_r004_date_format(rest, FilePath))
                                = yields
                      /\ Len(r010)
                            - Len(validate_r010_date_pattern_labels(rest, FilePath))
                                = yields

C30_Witness ==
    /\ lastOp = "validate_all_rules"
    /\ Len(IssuesWithRule(issues, "R004")) = 2
    /\ Len(IssuesWithRule(issues, "R010")) = 2
    /\ \E i \in 1..Len(ElementsOf(before)) :
          /\ IsDateLiteral(ElementsOf(before)[i])
          /\ ElementLabel(ElementsOf(before)[i]) = "Date"

====
